---- MODULE Spec2Model ----
(***************************************************************************)
(* The IBM Cloud VPC MCP server: the tool dispatcher (call_tool), the two  *)
(* managers it creates (VPCManager, StorageManager), their per-region      *)
(* client caches and the query functions behind the tools.                 *)
(*                                                                         *)
(* The remote VPC service is the environment: every remote call either     *)
(* returns a response body or raises, and the model draws that outcome     *)
(* from a bounded set.  A Python function is an operator that maps its     *)
(* arguments and the outcomes of its remote calls to an outcome of its     *)
(* own: Return(value) or Raise(exception).                                 *)
(***************************************************************************)
EXTENDS Integers, Sequences, FiniteSets, TLC

\* ------------------------------------------------------------------ bounds
\* Longest list a remote response carries.
MaxItems == 2

\* ------------------------------------------------------------ input domains
Regions == {"us-south", "eu-de"}
VpcIds == {"vpc-1", "vpc-2"}
Ids == {"r-1", "r-2"}

\* Python's None where the other values are strings.
None == "None"
\* Python's None where the other values are objects (records).
NoneObject == [is_none |-> TRUE]

\* ------------------------------------------------------- Python primitives
EmptyDict == [k \in {} |-> k]
Has(d, k) == k \in DOMAIN d
\* dict.get(k, default)
Get(d, k, default) == IF k \in DOMAIN d THEN d[k] ELSE default
\* d[k] = v on a dict (adds the key when it is absent)
Put(d, k, v) == [x \in DOMAIN d \cup {k} |-> IF x = k THEN v ELSE d[x]]
\* truth value of an Optional[str] argument: None and "" are falsy
Truthy(s) == s # None /\ s # ""

Return(v) == [kind |-> "return", value |-> v]
Raise(e) == [kind |-> "raise", exc |-> e]
Returned(out) == out.kind = "return"
Raised(out) == out.kind = "raise"

\* An exception is its class and its message; a message is the sequence of
\* the text fragments it is put together from.
ApiException(m) == [type |-> "ApiException", msg |-> <<m>>]
ConnectionError(m) == [type |-> "ConnectionError", msg |-> <<m>>]
\* str(KeyError(k)) is the repr of the key: the key between quotes.
KeyError(k) == [type |-> "KeyError", msg |-> <<"'", k, "'">>]
ValueError(m) == [type |-> "ValueError", msg |-> <<m>>]
\* isinstance(e, cls) for the two classes the except clauses name
IsInstance(e, cls) == cls = "Exception" \/ e.type = cls
\* str(e): the message text of the exception
Str(e) == e.msg

\* ------------------------------------------------------ the remote service
\* A remote call followed by get_result(): a response body, or an exception.
\* The SDK raises ApiException for an error status of the service and lets
\* transport errors (an unreachable endpoint) through as they are.
Ok(body) == [kind |-> "ok", body |-> body]
Fail(e) == [kind |-> "raise", exc |-> e]
RemoteFailures == {Fail(ApiException("Not Found")), Fail(ConnectionError("unreachable"))}

\* Sequences over S of length at most n.
SeqUpTo(S, n) == UNION {[1..k -> S] : k \in 0..n}

\* A resource record as the service returns it (the fields the code reads).
RawRecord(i, v) ==
    [id |-> i, name |-> i, vpc |-> [id |-> v],
     status |-> IF i = "r-1" THEN "running" ELSE "stopped",
     zone |-> [name |-> IF i = "r-1" THEN "zone-1" ELSE "zone-2"],
     profile |-> [name |-> "bx2-2x8"],
     primary_network_interface |-> [id |-> "nic"],
     created_at |-> "t0"]
RawRecords == {RawRecord(i, v) : i \in Ids, v \in VpcIds}
RawLists == SeqUpTo(RawRecords, MaxItems)

\* Responses to a list call whose items are under `key`: the list, a body
\* without the key, or a failure.
ListResponses(key, lists) ==
    {Ok([k \in {key} |-> l]) : l \in lists} \cup {Ok(EmptyDict)} \cup RemoteFailures

\* The region names the service reports.
RegionLists == {<<>>, <<"us-south">>, <<"us-south", "eu-de">>}
RegionsResponses ==
    {Ok([regions |-> [i \in 1..Len(l) |-> [name |-> l[i]]]]) : l \in RegionLists}
        \cup {Ok(EmptyDict)} \cup RemoteFailures
\* Stands for the response of a remote call the code does not make.
NotCalled == [kind |-> "not called"]

\* A VPC record of the service; the second lacks `status`.
RawVpc(v) == [id |-> v, name |-> v, status |-> "available", created_at |-> "t0"]
VpcLists == SeqUpTo({RawVpc(v) : v \in VpcIds}, MaxItems)
VpcsResponses == ListResponses("vpcs", VpcLists)
GetVpcResponses ==
    {Ok(RawVpc(v)) : v \in VpcIds} \cup {Ok([id |-> "vpc-1", name |-> "vpc-1"])}
        \cup RemoteFailures

\* ------------------------------------------------------ region client cache
ServiceUrl(region) == <<"https://", region, ".iaas.cloud.ibm.com/v1">>

\* ibm_vpc.VpcV1(version=..., authenticator=...) followed by set_service_url:
\* a new client object.  `owner` and `nth` make the object's identity: the
\* manager that built it and how many clients that manager has built for the
\* region.
VpcV1(owner, authenticator, region, nth) ==
    [version |-> "2025-04-08", authenticator |-> authenticator,
     service_url |-> ServiceUrl(region), owner |-> owner, nth |-> nth]

\* _get_vpc_client without `self.vpc_clients[region] = service`: the client
\* built is handed out and not stored.
GetClientNeverStores(self, region) ==
    IF region \notin DOMAIN self.vpc_clients
    THEN [self |-> self,
          client |-> VpcV1(self.owner, self.authenticator, region, 1),
          built |-> TRUE, region |-> region]
    ELSE [self |-> self, client |-> self.vpc_clients[region], built |-> FALSE,
          region |-> region]

\* _get_vpc_client with the cache test removed: a client is built and stored
\* on every call.
GetClientAlwaysBuilds(self, region) ==
    LET nth == IF region \in DOMAIN self.vpc_clients
               THEN self.vpc_clients[region].nth + 1 ELSE 1
        service == VpcV1(self.owner, self.authenticator, region, nth)
    IN [self |-> [self EXCEPT !.vpc_clients = Put(@, region, service)],
        client |-> service, built |-> TRUE, region |-> region]

\* VPCManager._get_vpc_client and StorageManager._get_vpc_client (the same
\* code): the new manager state, the client handed out, and whether the
\* constructor ran.
_get_vpc_client(self, region) ==
    IF region \notin DOMAIN self.vpc_clients
    THEN LET service == VpcV1(self.owner, self.authenticator, region, 1)
         IN [self |-> [self EXCEPT !.vpc_clients = Put(@, region, service)],
             client |-> service, built |-> TRUE, region |-> region]
    ELSE [self |-> self, client |-> self.vpc_clients[region], built |-> FALSE,
          region |-> region]

\* VPCManager.__init__
VPCManager(authenticator) ==
    [owner |-> "vpc", authenticator |-> authenticator,
     vpc_clients |-> EmptyDict, regions |-> <<>>]

\* StorageManager.__init__
StorageManager(authenticator) ==
    [owner |-> "storage", authenticator |-> authenticator,
     vpc_clients |-> EmptyDict]

\* What a method hands back: the manager after it, its outcome, and the
\* _get_vpc_client calls it made, in order.
Done(self, out, gets) == [self |-> self, out |-> out, gets |-> gets]
\* A method whose first statement is `service = self._get_vpc_client(region)`
\* and whose outcome does not touch the manager otherwise.
WithClient(self, region, out) ==
    LET g == _get_vpc_client(self, region)
    IN Done(g.self, out, <<g>>)

\* --------------------------------------------------- VPCManager: VPC queries
\* [f(x) for x in xs]
Map(xs, F(_)) == [i \in 1..Len(xs) |-> F(xs[i])]

\* A list_regions that would clear the stored region names when it fails.
ListRegionsForgetsOnFailure(self, resp) ==
    LET g == _get_vpc_client(self, "us-south")
        cleared == [g.self EXCEPT !.regions = <<>>]
    IN IF resp.kind = "raise" THEN Done(cleared, Raise(resp.exc), <<g>>)
       ELSE IF ~Has(resp.body, "regions")
       THEN Done(cleared, Raise(KeyError("regions")), <<g>>)
       ELSE Done([g.self EXCEPT
                     !.regions = Map(resp.body.regions, LAMBDA region: region.name)],
                 Return([regions |-> resp.body.regions,
                         count |-> Len(resp.body.regions)]),
                 <<g>>)

\* VPCManager.list_regions: no try block; the region names are stored on the
\* manager only when the call and the reading of the response succeed.
list_regions(self, resp) ==
    LET g == _get_vpc_client(self, "us-south")
    IN IF resp.kind = "raise" THEN Done(g.self, Raise(resp.exc), <<g>>)
       ELSE IF ~Has(resp.body, "regions")
       THEN Done(g.self, Raise(KeyError("regions")), <<g>>)
       ELSE Done([g.self EXCEPT
                     !.regions = Map(resp.body.regions, LAMBDA region: region.name)],
                 Return([regions |-> resp.body.regions,
                         count |-> Len(resp.body.regions)]),
                 <<g>>)

\* The loop of list_vpcs with `except ApiException` widened to every
\* exception: no failure of a region ends the loop.
RECURSIVE ListVpcsLoopCatchesAll(_, _, _, _, _, _)
ListVpcsLoopCatchesAll(self, regions_to_check, resps, i, all_vpcs, gets) ==
    IF i > Len(regions_to_check)
    THEN Done(self,
              Return([vpcs |-> all_vpcs, count |-> Len(all_vpcs),
                      regions_checked |-> regions_to_check]),
              gets)
    ELSE LET region_name == regions_to_check[i]
             g == _get_vpc_client(self, region_name)
             resp == resps[i]
         IN IF resp.kind = "raise" \/ ~Has(resp.body, "vpcs")
            THEN ListVpcsLoopCatchesAll(g.self, regions_to_check, resps, i + 1,
                                        all_vpcs, Append(gets, g))
            ELSE ListVpcsLoopCatchesAll(
                     g.self, regions_to_check, resps, i + 1,
                     all_vpcs \o Map(resp.body.vpcs,
                                      LAMBDA vpc: Put(vpc, "region", region_name)),
                     Append(gets, g))

\* The loop of list_vpcs over regions_to_check, from its i-th region on:
\* an ApiException of a region is logged and the loop goes on; any other
\* exception (of the call, or the KeyError of response['vpcs']) leaves the
\* function.
RECURSIVE list_vpcs_loop(_, _, _, _, _, _)
list_vpcs_loop(self, regions_to_check, resps, i, all_vpcs, gets) ==
    IF i > Len(regions_to_check)
    THEN Done(self,
              Return([vpcs |-> all_vpcs, count |-> Len(all_vpcs),
                      regions_checked |-> regions_to_check]),
              gets)
    ELSE LET region_name == regions_to_check[i]
             g == _get_vpc_client(self, region_name)
             resp == resps[i]
         IN IF resp.kind = "raise"
            THEN IF IsInstance(resp.exc, "ApiException")
                 THEN list_vpcs_loop(g.self, regions_to_check, resps, i + 1,
                                     all_vpcs, Append(gets, g))
                 ELSE Done(g.self, Raise(resp.exc), Append(gets, g))
            ELSE IF ~Has(resp.body, "vpcs")
            THEN Done(g.self, Raise(KeyError("vpcs")), Append(gets, g))
            ELSE list_vpcs_loop(
                     g.self, regions_to_check, resps, i + 1,
                     all_vpcs \o Map(resp.body.vpcs,
                                      LAMBDA vpc: Put(vpc, "region", region_name)),
                     Append(gets, g))

\* Whether list_vpcs(region) asks the service for the region list.
FetchesRegions(self, region) == ~Truthy(region) /\ self.regions = <<>>

\* list_vpcs with `except ApiException` widened to every exception.
ListVpcsCatchesAll(self, region, regions_resp, resps) ==
    IF Truthy(region)
    THEN ListVpcsLoopCatchesAll(self, <<region>>, resps, 1, <<>>, <<>>)
    ELSE IF self.regions = <<>>
    THEN LET r == list_regions(self, regions_resp)
         IN IF Raised(r.out) THEN r
            ELSE ListVpcsLoopCatchesAll(r.self, r.self.regions, resps, 1, <<>>, r.gets)
    ELSE ListVpcsLoopCatchesAll(self, self.regions, resps, 1, <<>>, <<>>)

\* VPCManager.list_vpcs.  regions_resp answers the list_regions call made
\* when no region is given and none is stored; resps[i] answers the
\* list_vpcs call for the i-th region checked.
list_vpcs(self, region, regions_resp, resps) ==
    IF Truthy(region)
    THEN list_vpcs_loop(self, <<region>>, resps, 1, <<>>, <<>>)
    ELSE IF self.regions = <<>>
    THEN LET r == list_regions(self, regions_resp)
         IN IF Raised(r.out) THEN r
            ELSE list_vpcs_loop(r.self, r.self.regions, resps, 1, <<>>, r.gets)
    ELSE list_vpcs_loop(self, self.regions, resps, 1, <<>>, <<>>)

\* The regions list_vpcs(region) loops over, given the response to the
\* region-list call it may make.
RegionsToCheck(self, region, regions_resp) ==
    IF Truthy(region) THEN <<region>>
    ELSE IF self.regions # <<>> THEN self.regions
    ELSE LET r == list_regions(self, regions_resp)
         IN IF Raised(r.out) THEN <<>> ELSE r.self.regions

\* get_vpc stamping the record differently on the first use of a region.
GetVpcMarksFirstUse(self, vpc_id, region, resp) ==
    WithClient(self, region,
               IF resp.kind = "raise" THEN Raise(resp.exc)
               ELSE Return(Put(resp.body, "region",
                               IF region \in DOMAIN self.vpc_clients THEN region
                               ELSE "first use")))

\* get_vpc with the error envelope of the storage functions around its call.
GetVpcSwallows(self, vpc_id, region, resp) ==
    WithClient(self, region,
               IF resp.kind = "raise"
               THEN Return([error |-> resp.exc.msg, region |-> region])
               ELSE Return(Put(resp.body, "region", region)))

\* VPCManager.get_vpc: no try block.
get_vpc(self, vpc_id, region, resp) ==
    WithClient(self, region,
               IF resp.kind = "raise" THEN Raise(resp.exc)
               ELSE Return(Put(resp.body, "region", region)))

\* ---------------------------------------------- VPCManager: resource queries
\* [x for x in xs if P(x)]
Filter(xs, P(_)) == SelectSeq(xs, P)
\* The first key of `keys` (in the order the code reads them) that some item
\* of xs lacks, scanning the items in order; None when every item has all.
RECURSIVE FirstMissing(_, _, _)
FirstMissing(xs, keys, i) ==
    IF i > Len(xs) THEN None
    ELSE LET missing == {k \in 1..Len(keys) : ~Has(xs[i], keys[k])}
         IN IF missing = {} THEN FirstMissing(xs, keys, i + 1)
            ELSE keys[CHOOSE k \in missing : \A m \in missing : k <= m]

\* `if vpc_id: xs = [x for x in xs if x['vpc']['id'] == vpc_id]`: the
\* filtered list, or the KeyError of a record without 'vpc'.
VpcFilter(xs, vpc_id) ==
    IF ~Truthy(vpc_id) THEN Return(xs)
    ELSE IF FirstMissing(xs, <<"vpc">>, 1) # None THEN Raise(KeyError("vpc"))
    ELSE Return(Filter(xs, LAMBDA x: x.vpc.id = vpc_id))

\* response[key] followed by the vpc_id filter.
FilteredItems(resp, key, vpc_id) ==
    IF resp.kind = "raise" THEN Raise(resp.exc)
    ELSE IF ~Has(resp.body, key) THEN Raise(KeyError(key))
    ELSE VpcFilter(resp.body[key], vpc_id)

\* list_subnets with `count` taken before the vpc_id filter.
ListSubnetsCountsUnfiltered(self, region, vpc_id, resp) ==
    LET items == FilteredItems(resp, "subnets", vpc_id)
    IN WithClient(self, region,
           IF Raised(items) THEN items
           ELSE Return([subnets |-> Map(items.value, LAMBDA subnet:
                            Put(Put(Put(subnet, "region", region),
                                    "available_ipv4_address_count",
                                    Get(subnet, "available_ipv4_address_count", 0)),
                                "total_ipv4_address_count",
                                Get(subnet, "total_ipv4_address_count", 0))),
                        count |-> Len(resp.body.subnets),
                        region |-> region, vpc_filter |-> vpc_id]))

\* VPCManager.list_subnets: no try block.
list_subnets(self, region, vpc_id, resp) ==
    LET items == FilteredItems(resp, "subnets", vpc_id)
        Enhance(subnet) ==
            Put(Put(Put(subnet, "region", region),
                    "available_ipv4_address_count",
                    Get(subnet, "available_ipv4_address_count", 0)),
                "total_ipv4_address_count",
                Get(subnet, "total_ipv4_address_count", 0))
    IN WithClient(self, region,
           IF Raised(items) THEN items
           ELSE Return([subnets |-> Map(items.value, Enhance),
                        count |-> Len(items.value),
                        region |-> region, vpc_filter |-> vpc_id]))

\* A list_instances that would read every field with a default, as
\* list_volumes does.
ListInstancesWithDefaults(self, region, vpc_id, resp) ==
    LET items == FilteredItems(resp, "instances", vpc_id)
        Summary(instance) ==
            [id |-> Get(instance, "id", "unknown"),
             name |-> Get(instance, "name", "unknown"),
             status |-> Get(instance, "status", "unknown")]
    IN WithClient(self, region,
           IF Raised(items) THEN items
           ELSE Return([instances |-> Map(items.value, Summary),
                        count |-> Len(items.value),
                        region |-> region, vpc_filter |-> vpc_id]))

\* VPCManager.list_instances: no try block; each instance is summarised
\* into a fixed projection, which has no `region`.
list_instances(self, region, vpc_id, resp) ==
    LET items == FilteredItems(resp, "instances", vpc_id)
        required == <<"id", "name", "status", "profile", "vpc", "zone",
                      "primary_network_interface", "created_at">>
        Summary(instance) ==
            [id |-> instance.id, name |-> instance.name,
             status |-> instance.status, profile |-> instance.profile.name,
             vpc |-> instance.vpc, zone |-> instance.zone.name,
             primary_network_interface |->
                 [id |-> instance.primary_network_interface.id,
                  primary_ipv4_address |->
                      Get(instance.primary_network_interface,
                          "primary_ipv4_address", None)],
             created_at |-> instance.created_at]
    IN WithClient(self, region,
           IF Raised(items) THEN items
           ELSE IF FirstMissing(items.value, required, 1) # None
           THEN Raise(KeyError(FirstMissing(items.value, required, 1)))
           ELSE Return([instances |-> Map(items.value, Summary),
                        count |-> Len(items.value),
                        region |-> region, vpc_filter |-> vpc_id]))

\* VPCManager.list_instance_profiles: no try block.
list_instance_profiles(self, region, resp) ==
    LET Summary(profile) ==
            [name |-> profile.name, family |-> Get(profile, "family", None),
             vcpu_count |-> Get(profile, "vcpu_count", None),
             memory |-> Get(profile, "memory", None),
             network_interface_count |-> Get(profile, "network_interface_count", None),
             bandwidth |-> Get(profile, "bandwidth", None)]
    IN WithClient(self, region,
           IF resp.kind = "raise" THEN Raise(resp.exc)
           ELSE IF ~Has(resp.body, "profiles") THEN Raise(KeyError("profiles"))
           ELSE IF FirstMissing(resp.body.profiles, <<"name">>, 1) # None
           THEN Raise(KeyError("name"))
           ELSE Return([profiles |-> Map(resp.body.profiles, Summary),
                        count |-> Len(resp.body.profiles),
                        region |-> region]))

\* VPCManager.list_public_gateways: no try block; the records are returned
\* as the service sent them.
list_public_gateways(self, region, vpc_id, resp) ==
    LET items == FilteredItems(resp, "public_gateways", vpc_id)
    IN WithClient(self, region,
           IF Raised(items) THEN items
           ELSE Return([public_gateways |-> items.value,
                        count |-> Len(items.value),
                        region |-> region, vpc_filter |-> vpc_id]))

\* VPCManager.list_security_groups: no try block.
list_security_groups(self, region, vpc_id, resp) ==
    LET items == FilteredItems(resp, "security_groups", vpc_id)
        required == <<"id", "name", "vpc", "created_at">>
        Summary(sg) ==
            [id |-> sg.id, name |-> sg.name, vpc |-> sg.vpc,
             rules_count |-> Len(Get(sg, "rules", <<>>)),
             created_at |-> sg.created_at]
    IN WithClient(self, region,
           IF Raised(items) THEN items
           ELSE IF FirstMissing(items.value, required, 1) # None
           THEN Raise(KeyError(FirstMissing(items.value, required, 1)))
           ELSE Return([security_groups |-> Map(items.value, Summary),
                        count |-> Len(items.value),
                        region |-> region, vpc_filter |-> vpc_id]))

\* VPCManager.get_security_group: no try block.
get_security_group(self, security_group_id, region, resp) ==
    WithClient(self, region,
               IF resp.kind = "raise" THEN Raise(resp.exc)
               ELSE Return(Put(resp.body, "region", region)))

\* VPCManager.list_security_group_rules: no try block.
list_security_group_rules(self, security_group_id, region, resp) ==
    WithClient(self, region,
               IF resp.kind = "raise" THEN Raise(resp.exc)
               ELSE IF ~Has(resp.body, "rules") THEN Raise(KeyError("rules"))
               ELSE Return([security_group_id |-> security_group_id,
                            rules |-> resp.body.rules,
                            count |-> Len(resp.body.rules),
                            region |-> region]))

\* VPCManager.list_floating_ips: no try block.
list_floating_ips(self, region, resp) ==
    WithClient(self, region,
               IF resp.kind = "raise" THEN Raise(resp.exc)
               ELSE IF ~Has(resp.body, "floating_ips")
               THEN Raise(KeyError("floating_ips"))
               ELSE Return([floating_ips |-> resp.body.floating_ips,
                            count |-> Len(resp.body.floating_ips),
                            region |-> region]))

\* ------------------------------------------------ VPCManager: routing tables
\* A name is the sequence of its characters, so that lower() and `in` are
\* computed; an absent name argument (None or "") is the empty sequence.
NoName == <<>>
Names == {<<"a">>, <<"A">>, <<"a", "b">>}
UnknownName == <<"u", "n", "k", "n", "o", "w", "n">>
\* str.lower()
Lower(s) ==
    [i \in 1..Len(s) |->
        CASE s[i] = "A" -> "a" [] s[i] = "B" -> "b" [] OTHER -> s[i]]
\* `sub in s` on strings
Contains(sub, s) ==
    \E k \in 0..(Len(s) - Len(sub)) : SubSeq(s, k + 1, k + Len(sub)) = sub

\* A routing table as the service returns it.
RawTables == {[id |-> "r-1", name |-> n] : n \in Names} \cup {[id |-> "r-2"]}
TableLists == SeqUpTo(RawTables, MaxItems)
RoutingTablesResponses == ListResponses("routing_tables", TableLists)
GetRoutingTableResponses ==
    {Ok(t) : t \in RawTables} \cup {Ok(EmptyDict)} \cup RemoteFailures

\* {k: v for k, v in params.items() if v is not None}
WithoutNone(params) ==
    [k \in {x \in DOMAIN params : params[x] # None} |-> params[k]]

\* The projection list_routing_tables and get_routing_table make of a table:
\* every field read with a default.
TableInfo(table) ==
    LET info == [id |-> Get(table, "id", "unknown"),
                 name |-> Get(table, "name", UnknownName),
                 vpc |-> Get(table, "vpc", EmptyDict),
                 is_default |-> Get(table, "is_default", FALSE),
                 lifecycle_state |-> Get(table, "lifecycle_state", "unknown"),
                 resource_group |-> Get(table, "resource_group", EmptyDict),
                 created_at |-> Get(table, "created_at", "unknown"),
                 href |-> Get(table, "href", "unknown"),
                 route_direct_link_ingress |->
                     Get(table, "route_direct_link_ingress", FALSE),
                 route_transit_gateway_ingress |->
                     Get(table, "route_transit_gateway_ingress", FALSE),
                 route_vpc_zone_ingress |->
                     Get(table, "route_vpc_zone_ingress", FALSE)]
        Subnet(subnet) ==
            [id |-> Get(subnet, "id", "unknown"),
             name |-> Get(subnet, "name", "unknown"),
             href |-> Get(subnet, "href", "unknown")]
    IN IF Has(table, "subnets") /\ table.subnets # <<>>
       THEN Put(info, "subnets", Map(table.subnets, Subnet))
       ELSE info

\* The try block of list_routing_tables: its return value, or the exception
\* that leaves it.
list_routing_tables_try(region, vpc_id, start, limit, is_default, name, resp) ==
    LET params == WithoutNone([vpc_id |-> vpc_id, start |-> start,
                               limit |-> limit, is_default |-> is_default])
        response_tables == Get(resp.body, "routing_tables", <<>>)
        WithRoutes(table) ==
            IF Has(table, "routes")
            THEN Put(TableInfo(table), "routes_count", Len(table.routes))
            ELSE TableInfo(table)
        all_tables == Map(response_tables, WithRoutes)
        routing_tables ==
            IF name # NoName
            THEN Filter(all_tables, LAMBDA rt: Contains(Lower(name), Lower(rt.name)))
            ELSE all_tables
    IN IF resp.kind = "raise" THEN Raise(resp.exc)
       ELSE Return([routing_tables |-> routing_tables,
                    count |-> Len(routing_tables), region |-> region,
                    filters |-> [vpc_id |-> vpc_id, is_default |-> is_default,
                                 name |-> name]])

\* list_routing_tables with its except clause narrowed to ApiException.
ListRoutingTablesCatchesApiOnly(self, region, vpc_id, start, limit, is_default, name, resp) ==
    LET out == list_routing_tables_try(region, vpc_id, start, limit, is_default,
                                       name, resp)
    IN WithClient(self, region,
           IF Raised(out) /\ IsInstance(out.exc, "ApiException")
           THEN Return([error |-> Str(out.exc), region |-> region,
                        routing_tables |-> <<>>, count |-> 0])
           ELSE out)

\* VPCManager.list_routing_tables: the client is fetched before the try
\* block; every exception of the block becomes an error envelope.
list_routing_tables(self, region, vpc_id, start, limit, is_default, name, resp) ==
    LET out == list_routing_tables_try(region, vpc_id, start, limit, is_default,
                                       name, resp)
    IN WithClient(self, region,
           IF Raised(out) /\ IsInstance(out.exc, "Exception")
           THEN Return([error |-> Str(out.exc), region |-> region,
                        routing_tables |-> <<>>, count |-> 0])
           ELSE out)

\* The try block of get_routing_table.
get_routing_table_try(resp) ==
    LET Route(route) ==
            LET info == [id |-> Get(route, "id", "unknown"),
                         name |-> Get(route, "name", "unknown"),
                         destination |-> Get(route, "destination", "unknown"),
                         action |-> Get(route, "action", "unknown"),
                         zone |-> Get(route, "zone", EmptyDict),
                         created_at |-> Get(route, "created_at", "unknown"),
                         href |-> Get(route, "href", "unknown"),
                         lifecycle_state |-> Get(route, "lifecycle_state", "unknown")]
            IN IF Has(route, "next_hop")
               THEN Put(info, "next_hop", route.next_hop) ELSE info
    IN IF resp.kind = "raise" THEN Raise(resp.exc)
       ELSE IF Has(resp.body, "routes") /\ resp.body.routes # <<>>
       THEN Return(Put(Put(TableInfo(resp.body), "routes",
                           Map(resp.body.routes, Route)),
                       "routes_count", Len(resp.body.routes)))
       ELSE Return(TableInfo(resp.body))

\* get_routing_table without its except clause.
GetRoutingTableUnguarded(self, vpc_id, routing_table_id, region, resp) ==
    WithClient(self, region, get_routing_table_try(resp))

\* VPCManager.get_routing_table: every exception of the try block becomes
\* {error, vpc_id, routing_table_id, region}.
get_routing_table(self, vpc_id, routing_table_id, region, resp) ==
    LET out == get_routing_table_try(resp)
    IN WithClient(self, region,
           IF Raised(out) /\ IsInstance(out.exc, "Exception")
           THEN Return([error |-> Str(out.exc), vpc_id |-> vpc_id,
                        routing_table_id |-> routing_table_id, region |-> region])
           ELSE out)

\* The tables find_routing_table_by_name is run on: two ids, so that tables
\* of one name are told apart.
LookupTables == {[id |-> i, name |-> n] : i \in Ids, n \in Names}
LookupResponses ==
    ListResponses("routing_tables", SeqUpTo(LookupTables, MaxItems))

\* find_routing_table_by_name with the exact match compared on lower case.
FindRoutingTableIgnoresCase(self, region, vpc_id, name, resp) ==
    LET r == list_routing_tables(self, region, vpc_id, None, None, None, name, resp)
        tables_result == r.out.value
        base == [region |-> region, vpc_id |-> vpc_id, name |-> name]
        matching_tables == Get(tables_result, "routing_tables", <<>>)
        exact_matches == Filter(matching_tables, LAMBDA table: Lower(table.name) = Lower(name))
    IN Done(r.self,
            IF Has(tables_result, "error")
            THEN Return(Put(base, "error", tables_result.error))
            ELSE IF matching_tables = <<>>
            THEN Return(Put(Put(base, "error",
                                <<"No routing table found with name '", name,
                                  "' in VPC ", vpc_id>>),
                            "found_count", 0))
            ELSE IF Len(exact_matches) > 1
            THEN Return(Put(Put(Put(Put(base, "warning",
                                <<"Multiple routing tables found with exact name '",
                                  name, "'">>),
                            "found_count", Len(exact_matches)),
                            "matches", exact_matches),
                            "primary_match", exact_matches[1]))
            ELSE IF exact_matches # <<>>
            THEN Return(Put(Put(Put(base, "found_count", 1),
                            "match", exact_matches[1]),
                            "id", exact_matches[1].id))
            ELSE Return(Put(Put(Put(base, "warning",
                                <<"No exact match found for '", name,
                                  "', returning partial matches">>),
                            "found_count", Len(matching_tables)),
                            "matches", matching_tables)),
            r.gets)

\* A find_routing_table_by_name whose error results all carry found_count 0.
FindRoutingTableCountsErrors(self, region, vpc_id, name, resp) ==
    LET r == list_routing_tables(self, region, vpc_id, None, None, None, name, resp)
        tables_result == r.out.value
        base == [region |-> region, vpc_id |-> vpc_id, name |-> name]
        matching_tables == Get(tables_result, "routing_tables", <<>>)
        exact_matches == Filter(matching_tables, LAMBDA table: table.name = name)
    IN Done(r.self,
            IF Has(tables_result, "error")
            THEN Return(Put(Put(base, "error", tables_result.error), "found_count", 0))
            ELSE IF matching_tables = <<>>
            THEN Return(Put(Put(base, "error",
                                <<"No routing table found with name '", name,
                                  "' in VPC ", vpc_id>>),
                            "found_count", 0))
            ELSE IF Len(exact_matches) > 1
            THEN Return(Put(Put(Put(Put(base, "warning",
                                <<"Multiple routing tables found with exact name '",
                                  name, "'">>),
                            "found_count", Len(exact_matches)),
                            "matches", exact_matches),
                            "primary_match", exact_matches[1]))
            ELSE IF exact_matches # <<>>
            THEN Return(Put(Put(Put(base, "found_count", 1),
                            "match", exact_matches[1]),
                            "id", exact_matches[1].id))
            ELSE Return(Put(Put(Put(base, "warning",
                                <<"No exact match found for '", name,
                                  "', returning partial matches">>),
                            "found_count", Len(matching_tables)),
                            "matches", matching_tables)),
            r.gets)

\* VPCManager.find_routing_table_by_name: the listing filtered by name, then
\* the decision on the exact matches; an exception anywhere in the body
\* becomes {error, region, vpc_id, name}.
find_routing_table_by_name(self, region, vpc_id, name, resp) ==
    LET r == list_routing_tables(self, region, vpc_id, None, None, None, name, resp)
        tables_result == r.out.value
        base == [region |-> region, vpc_id |-> vpc_id, name |-> name]
        matching_tables == Get(tables_result, "routing_tables", <<>>)
        exact_matches == Filter(matching_tables, LAMBDA table: table.name = name)
    IN Done(r.self,
            IF Raised(r.out) /\ IsInstance(r.out.exc, "Exception")
            THEN Return(Put(base, "error", Str(r.out.exc)))
            ELSE IF Has(tables_result, "error")
            THEN Return(Put(base, "error", tables_result.error))
            ELSE IF matching_tables = <<>>
            THEN Return(Put(Put(base, "error",
                                <<"No routing table found with name '", name,
                                  "' in VPC ", vpc_id>>),
                            "found_count", 0))
            ELSE IF Len(exact_matches) > 1
            THEN Return(Put(Put(Put(Put(base, "warning",
                                <<"Multiple routing tables found with exact name '",
                                  name, "'">>),
                            "found_count", Len(exact_matches)),
                            "matches", exact_matches),
                            "primary_match", exact_matches[1]))
            ELSE IF exact_matches # <<>>
            THEN Return(Put(Put(Put(base, "found_count", 1),
                            "match", exact_matches[1]),
                            "id", exact_matches[1].id))
            ELSE Return(Put(Put(Put(base, "warning",
                                <<"No exact match found for '", name,
                                  "', returning partial matches">>),
                            "found_count", Len(matching_tables)),
                            "matches", matching_tables)),
            r.gets)

\* ----------------------------------------------- VPCManager: backup policies
RawPolicies == {[id |-> "bp-1", name |-> "daily", lifecycle_state |-> "stable"],
                [id |-> "bp-2", lifecycle_state |-> "failed"]}
RawJobs == {[id |-> "job-1", status |-> "succeeded", created_at |-> "t0"],
            [id |-> "job-2", status |-> "failed", created_at |-> "t0"]}
RawPlans == {[id |-> "plan-1", name |-> "plan"]}
BackupPoliciesResponses == ListResponses("backup_policies", SeqUpTo(RawPolicies, MaxItems))
JobsResponses == ListResponses("jobs", SeqUpTo(RawJobs, MaxItems))
PlansResponses == ListResponses("plans", SeqUpTo(RawPlans, MaxItems))
GetPolicyResponses == {Ok(p) : p \in RawPolicies} \cup RemoteFailures

\* list_backup_policies with the error envelope of the storage functions in
\* place of `raise`.
ListBackupPoliciesSwallows(self, region, resource_group_id, name, tag, start, limit, resp) ==
    WithClient(self, region,
        IF resp.kind = "raise"
        THEN Return([error |-> Str(resp.exc), region |-> region,
                     backup_policies |-> <<>>, count |-> 0])
        ELSE LET policies == Get(resp.body, "backup_policies", <<>>)
             IN Return([backup_policies |->
                            Map(policies, LAMBDA policy: Put(policy, "region", region)),
                        count |-> Len(policies), region |-> region,
                        filters |-> [resource_group_id |-> resource_group_id,
                                     name |-> name, tag |-> tag]]))

\* VPCManager.list_backup_policies: `except ApiException: raise`, and no
\* other except clause, so every exception leaves the function.
list_backup_policies(self, region, resource_group_id, name, tag, start, limit, resp) ==
    WithClient(self, region,
        IF resp.kind = "raise" THEN Raise(resp.exc)
        ELSE LET policies == Get(resp.body, "backup_policies", <<>>)
             IN Return([backup_policies |->
                            Map(policies, LAMBDA policy: Put(policy, "region", region)),
                        count |-> Len(policies), region |-> region,
                        filters |-> [resource_group_id |-> resource_group_id,
                                     name |-> name, tag |-> tag]]))

\* The status_summary of list_backup_policy_jobs: status -> number of jobs.
StatusSummary(jobs) ==
    LET StatusOf(i) == Get(jobs[i], "status", "unknown")
    IN [st \in {StatusOf(i) : i \in 1..Len(jobs)} |->
           Cardinality({i \in 1..Len(jobs) : StatusOf(i) = st})]

\* VPCManager.list_backup_policy_jobs: propagates like list_backup_policies.
\* The optional filters are passed to the service as they are.
list_backup_policy_jobs(self, backup_policy_id, region, limit, sort, resp) ==
    WithClient(self, region,
        IF resp.kind = "raise" THEN Raise(resp.exc)
        ELSE LET raw == Get(resp.body, "jobs", <<>>)
                 jobs == Map(raw, LAMBDA job:
                             Put(Put(job, "region", region),
                                 "backup_policy_id", backup_policy_id))
             IN Return([jobs |-> jobs, count |-> Len(jobs),
                        backup_policy_id |-> backup_policy_id,
                        region |-> region,
                        status_summary |-> StatusSummary(jobs),
                        filters |-> [status |-> None,
                                     backup_policy_plan_id |-> None,
                                     source_id |-> None]]))

\* list_backup_policy_plans without `plan['region'] = region`.
ListBackupPolicyPlansUnstamped(self, backup_policy_id, region, name, resp) ==
    WithClient(self, region,
        IF resp.kind = "raise" THEN Raise(resp.exc)
        ELSE LET raw == Get(resp.body, "plans", <<>>)
                 plans == Map(raw, LAMBDA plan:
                              Put(plan, "backup_policy_id", backup_policy_id))
             IN Return([plans |-> plans, count |-> Len(plans),
                        backup_policy_id |-> backup_policy_id,
                        region |-> region,
                        filters |-> [name |-> name]]))

\* VPCManager.list_backup_policy_plans: propagates like list_backup_policies.
list_backup_policy_plans(self, backup_policy_id, region, name, resp) ==
    WithClient(self, region,
        IF resp.kind = "raise" THEN Raise(resp.exc)
        ELSE LET raw == Get(resp.body, "plans", <<>>)
                 plans == Map(raw, LAMBDA plan:
                              Put(Put(plan, "region", region),
                                  "backup_policy_id", backup_policy_id))
             IN Return([plans |-> plans, count |-> Len(plans),
                        backup_policy_id |-> backup_policy_id,
                        region |-> region,
                        filters |-> [name |-> name]]))

\* ------------------------------------------------ VPCManager: SSH analysis
RawRules ==
    {[id |-> "rule-1", protocol |-> "tcp", direction |-> "inbound",
      port_min |-> 22, port_max |-> 22, remote |-> [cidr_block |-> "0.0.0.0/0"]],
     [id |-> "rule-2", protocol |-> "tcp", direction |-> "inbound",
      port_min |-> 22, port_max |-> 22, remote |-> [cidr_block |-> "10.0.0.0/8"]]}
RulesResponses == ListResponses("rules", SeqUpTo(RawRules, MaxItems))

\* The test of analyze_ssh_security_groups without the port range.
IsOpenRuleOfAnyPort(rule) ==
    /\ Get(rule, "protocol", None) = "tcp"
    /\ Get(rule, "direction", None) = "inbound"
    /\ Get(Get(rule, "remote", EmptyDict), "cidr_block", None) = "0.0.0.0/0"

\* The test analyze_ssh_security_groups applies to one rule.
IsSshOpenRule(rule) ==
    /\ Get(rule, "protocol", None) = "tcp"
    /\ Get(rule, "direction", None) = "inbound"
    /\ Get(rule, "port_min", 0) <= 22
    /\ 22 <= Get(rule, "port_max", 65535)
    /\ Get(Get(rule, "remote", EmptyDict), "cidr_block", None) = "0.0.0.0/0"

\* The except clause around one group of the two scans with no exception
\* class it catches.
ScanExceptCatchesNothing(exc) == FALSE

\* `except ApiException` around the body of the loop over the security
\* groups, in analyze_ssh_security_groups and in
\* analyze_security_groups_by_protocol: whether it catches exc.
scan_except(exc) == IsInstance(exc, "ApiException")

\* The loop of analyze_ssh_security_groups over the security groups, from
\* the i-th on.  rules_resps[i] answers the rule listing of the i-th group.
\* An ApiException skips the group; any other exception leaves the function.
RECURSIVE analyze_ssh_loop(_, _, _, _)
analyze_ssh_loop(security_groups, rules_resps, i, risky_groups) ==
    IF i > Len(security_groups) THEN Return(risky_groups)
    ELSE LET sg == security_groups[i]
             resp == rules_resps[i]
         IN IF ~Has(sg, "id") THEN Raise(KeyError("id"))
            ELSE IF resp.kind = "raise"
            THEN IF scan_except(resp.exc)
                 THEN analyze_ssh_loop(security_groups, rules_resps, i + 1, risky_groups)
                 ELSE Raise(resp.exc)
            ELSE IF ~Has(resp.body, "rules") THEN Raise(KeyError("rules"))
            ELSE LET risky_rules == Filter(resp.body.rules, IsSshOpenRule)
                 IN IF risky_rules = <<>>
                    THEN analyze_ssh_loop(security_groups, rules_resps, i + 1, risky_groups)
                    ELSE IF ~Has(sg, "name") THEN Raise(KeyError("name"))
                    ELSE IF ~Has(sg, "vpc") THEN Raise(KeyError("vpc"))
                    ELSE analyze_ssh_loop(
                             security_groups, rules_resps, i + 1,
                             Append(risky_groups,
                                    [security_group_id |-> sg.id,
                                     security_group_name |-> sg.name,
                                     vpc |-> sg.vpc,
                                     risky_rules |-> risky_rules,
                                     rule_count |-> Len(risky_rules)]))

\* VPCManager.analyze_ssh_security_groups: no try block around the group
\* listing.
analyze_ssh_security_groups(self, region, vpc_id, sg_resp, rules_resps) ==
    LET items == FilteredItems(sg_resp, "security_groups", vpc_id)
        risky == analyze_ssh_loop(items.value, rules_resps, 1, <<>>)
    IN WithClient(self, region,
        IF Raised(items) THEN items
        ELSE IF Raised(risky) THEN risky
        ELSE Return([risky_security_groups |-> risky.value,
                     count |-> Len(risky.value), region |-> region,
                     vpc_filter |-> vpc_id,
                     analysis_type |-> "SSH access from 0.0.0.0/0"]))

\* Python's None where the other values are numbers.
NoneNumber == -1
\* str.upper() on a protocol name
Upper(protocol) ==
    CASE protocol = "tcp" -> "TCP" [] protocol = "udp" -> "UDP"
      [] protocol = "icmp" -> "ICMP" [] protocol = "all" -> "ALL" [] OTHER -> protocol

\* The test of analyze_security_groups_by_protocol without the comparison
\* of the source.
MatchesRuleOfAnySource(rule, protocol, port, source_cidr) ==
    /\ Get(rule, "protocol", None) = protocol
    /\ Get(rule, "direction", None) = "inbound"
    /\ port # NoneNumber =>
           (Get(rule, "port_min", 0) <= port /\ port <= Get(rule, "port_max", 65535))

\* The test analyze_security_groups_by_protocol applies to one rule.
MatchesProtocolRule(rule, protocol, port, source_cidr) ==
    /\ Get(rule, "protocol", None) = protocol
    /\ Get(rule, "direction", None) = "inbound"
    /\ port # NoneNumber =>
           (Get(rule, "port_min", 0) <= port /\ port <= Get(rule, "port_max", 65535))
    /\ Get(Get(rule, "remote", EmptyDict), "cidr_block", None) = source_cidr

\* The loop of analyze_security_groups_by_protocol over the security groups,
\* from the i-th on.
RECURSIVE analyze_protocol_loop(_, _, _, _, _)
analyze_protocol_loop(security_groups, rules_resps, i, matching_groups, criteria) ==
    IF i > Len(security_groups) THEN Return(matching_groups)
    ELSE LET sg == security_groups[i]
             resp == rules_resps[i]
         IN IF ~Has(sg, "id") THEN Raise(KeyError("id"))
            ELSE IF resp.kind = "raise"
            THEN IF scan_except(resp.exc)
                 THEN analyze_protocol_loop(security_groups, rules_resps, i + 1,
                                            matching_groups, criteria)
                 ELSE Raise(resp.exc)
            ELSE IF ~Has(resp.body, "rules") THEN Raise(KeyError("rules"))
            ELSE LET matching_rules ==
                         Filter(resp.body.rules,
                                LAMBDA rule: MatchesProtocolRule(rule, criteria.protocol,
                                                 criteria.port, criteria.source_cidr))
                 IN IF matching_rules = <<>>
                    THEN analyze_protocol_loop(security_groups, rules_resps, i + 1,
                                               matching_groups, criteria)
                    ELSE IF ~Has(sg, "name") THEN Raise(KeyError("name"))
                    ELSE IF ~Has(sg, "vpc") THEN Raise(KeyError("vpc"))
                    ELSE analyze_protocol_loop(
                             security_groups, rules_resps, i + 1,
                             Append(matching_groups,
                                    [security_group_id |-> sg.id,
                                     security_group_name |-> sg.name,
                                     vpc |-> sg.vpc,
                                     matching_rules |-> matching_rules,
                                     rule_count |-> Len(matching_rules)]),
                             criteria)

\* VPCManager.analyze_security_groups_by_protocol: no try block around the
\* group listing.
analyze_security_groups_by_protocol(self, region, protocol, port, source_cidr, vpc_id, sg_resp, rules_resps) ==
    LET items == FilteredItems(sg_resp, "security_groups", vpc_id)
        criteria == [protocol |-> protocol, port |-> port, source_cidr |-> source_cidr]
        matching == analyze_protocol_loop(items.value, rules_resps, 1, <<>>, criteria)
        analysis_desc ==
            <<Upper(protocol)>>
                \o (IF port # NoneNumber /\ port # 0 THEN <<" port ", port>> ELSE <<>>)
                \o <<" from ", source_cidr>>
    IN WithClient(self, region,
        IF Raised(items) THEN items
        ELSE IF Raised(matching) THEN matching
        ELSE Return([matching_security_groups |-> matching.value,
                     count |-> Len(matching.value), region |-> region,
                     vpc_filter |-> vpc_id,
                     analysis_type |-> analysis_desc,
                     criteria |-> criteria]))

\* The number of security groups whose rules analyze_ssh_security_groups
\* may list, given the response to its group listing.
GroupsListed(vpc_id, sg_resp) ==
    LET items == FilteredItems(sg_resp, "security_groups", vpc_id)
    IN IF Raised(items) THEN 0 ELSE Len(items.value)

\* --------------------------------------------------- VPCManager: summaries
\* datetime.now().isoformat(): the clock is outside the model.
Timestamp == "now"

\* The except clause of the summaries narrowed to ApiException.
SummaryExceptApiOnly(out) ==
    IF Raised(out) /\ IsInstance(out.exc, "ApiException")
    THEN Return([error |-> Str(out.exc)]) ELSE out

\* `except Exception as e: slot = {'error': str(e)}`, the clause that closes
\* every try block of get_vpc_resources_summary and
\* get_backup_policy_summary: `out` is the outcome of the try block.
summary_except(out) ==
    IF Raised(out) /\ IsInstance(out.exc, "Exception")
    THEN Return([error |-> Str(out.exc)]) ELSE out

\* The first exception among the outcomes of a statement sequence, or the
\* value the function returns when none raised.
RECURSIVE FirstRaised(_, _, _)
FirstRaised(outs, i, value) ==
    IF i > Len(outs) THEN Return(value)
    ELSE IF Raised(outs[i]) THEN outs[i]
    ELSE FirstRaised(outs, i + 1, value)

\* status -> number of instances with it
ByStatus(instances) ==
    [st \in {instances[i].status : i \in 1..Len(instances)} |->
        Cardinality({i \in 1..Len(instances) : instances[i].status = st})]

\* VPCManager.get_vpc_resources_summary.  feed holds the responses to the
\* remote calls of its six sub-queries, which run one after the other on
\* the same manager, each in a try block of its own.
get_vpc_resources_summary(self, vpc_id, region, feed) ==
    LET q1 == get_vpc(self, vpc_id, region, feed.vpc)
        q2 == list_subnets(q1.self, region, vpc_id, feed.subnets)
        q3 == list_instances(q2.self, region, vpc_id, feed.instances)
        q4 == list_security_groups(q3.self, region, vpc_id, feed.security_groups)
        q5 == list_public_gateways(q4.self, region, vpc_id, feed.public_gateways)
        q6 == analyze_ssh_security_groups(q5.self, region, vpc_id,
                                          feed.ssh_groups, feed.ssh_rules)
        vpc_details ==
            summary_except(
                IF Raised(q1.out) THEN q1.out
                ELSE IF FirstMissing(<<q1.out.value>>, <<"name", "status", "created_at">>, 1) # None
                THEN Raise(KeyError(FirstMissing(<<q1.out.value>>,
                                                 <<"name", "status", "created_at">>, 1)))
                ELSE Return([name |-> q1.out.value.name,
                             status |-> q1.out.value.status,
                             created_at |-> q1.out.value.created_at]))
        subnets ==
            summary_except(
                IF Raised(q2.out) THEN q2.out
                ELSE IF FirstMissing(q2.out.value.subnets, <<"zone">>, 1) # None
                THEN Raise(KeyError("zone"))
                ELSE Return([count |-> q2.out.value.count,
                             zones |-> {q2.out.value.subnets[i].zone.name :
                                           i \in 1..Len(q2.out.value.subnets)}]))
        instances ==
            summary_except(
                IF Raised(q3.out) THEN q3.out
                ELSE Return([count |-> q3.out.value.count,
                             by_status |-> ByStatus(q3.out.value.instances)]))
        security_groups ==
            summary_except(
                IF Raised(q4.out) THEN q4.out
                ELSE Return([count |-> q4.out.value.count]))
        public_gateways ==
            summary_except(
                IF Raised(q5.out) THEN q5.out
                ELSE Return([count |-> q5.out.value.count]))
        security_analysis ==
            summary_except(
                IF Raised(q6.out) THEN q6.out
                ELSE Return([ssh_open_to_internet |->
                    [risky_groups_count |-> q6.out.value.count,
                     risky_groups |->
                         Map(q6.out.value.risky_security_groups,
                             LAMBDA group: [name |-> group.security_group_name,
                                            id |-> group.security_group_id])]]))
        slots == <<vpc_details, subnets, instances, security_groups,
                   public_gateways, security_analysis>>
    IN Done(q6.self,
            FirstRaised(slots, 1,
                [vpc_id |-> vpc_id, region |-> region, timestamp |-> Timestamp,
                 resources |-> [subnets |-> subnets.value,
                                instances |-> instances.value,
                                security_groups |-> security_groups.value,
                                public_gateways |-> public_gateways.value],
                 vpc_details |-> vpc_details.value,
                 security_analysis |-> security_analysis.value]),
            q1.gets \o q2.gets \o q3.gets \o q4.gets \o q5.gets \o q6.gets)

\* jobs[:10]
FirstTen(jobs) == SubSeq(jobs, 1, IF Len(jobs) < 10 THEN Len(jobs) ELSE 10)

\* VPCManager.get_backup_policy_summary.  feed holds the responses to
\* get_backup_policy and to the plan and job listings.
get_backup_policy_summary(self, backup_policy_id, region, feed) ==
    LET g == _get_vpc_client(self, region)
        q2 == list_backup_policy_plans(g.self, backup_policy_id, region, None, feed.plans)
        q3 == list_backup_policy_jobs(q2.self, backup_policy_id, region,
                                      50, "-created_at", feed.jobs)
        policy_details ==
            summary_except(
                IF feed.policy.kind = "raise" THEN Raise(feed.policy.exc)
                ELSE Return(Put(feed.policy.body, "region", region)))
        plans ==
            summary_except(
                IF Raised(q2.out) THEN q2.out
                ELSE Return([count |-> q2.out.value.count,
                             plans |-> q2.out.value.plans]))
        recent_jobs ==
            summary_except(
                IF Raised(q3.out) THEN q3.out
                ELSE Return([count |-> q3.out.value.count,
                             status_summary |-> q3.out.value.status_summary,
                             jobs |-> FirstTen(q3.out.value.jobs)]))
    IN Done(q3.self,
            FirstRaised(<<policy_details, plans, recent_jobs>>, 1,
                [backup_policy_id |-> backup_policy_id, region |-> region,
                 timestamp |-> Timestamp,
                 policy_details |-> policy_details.value,
                 plans |-> plans.value,
                 recent_jobs |-> recent_jobs.value]),
            <<g>> \o q2.gets \o q3.gets)

\* ---------------------------------------------------------- StorageManager
\* Volumes, shares, snapshots and profiles as the service returns them; the
\* second record of each kind lacks most fields.
RawVolumes ==
    {[id |-> "r-1", name |-> "r-1", status |-> "available", capacity |-> 100,
      iops |-> 3000, profile |-> [name |-> "general-purpose"],
      zone |-> [name |-> "zone-1"], created_at |-> "t0",
      attachment_state |-> "attached"],
     [id |-> "r-2", capacity |-> 50]}
RawShares ==
    {[id |-> "r-1", name |-> "r-1", status |-> "available", size |-> 100,
      iops |-> 3000, profile |-> [name |-> "dp2"], zone |-> [name |-> "zone-1"],
      created_at |-> "t0", lifecycle_state |-> "stable"],
     [id |-> "r-2", size |-> 50]}
RawSnapshots ==
    {[id |-> "r-1", name |-> "r-1", status |-> "available", size |-> 10,
      source_volume |-> [id |-> "r-1", name |-> "r-1"], bootable |-> TRUE,
      created_at |-> "t0", lifecycle_state |-> "stable"],
     [id |-> "r-2", size |-> 5]}
RawProfiles ==
    {[name |-> "general-purpose", family |-> "tiered", href |-> "href"],
     [name |-> "custom"]}
VolumesResponses == ListResponses("volumes", SeqUpTo(RawVolumes, MaxItems))
SharesResponses == ListResponses("shares", SeqUpTo(RawShares, MaxItems))
SnapshotsResponses == ListResponses("snapshots", SeqUpTo(RawSnapshots, MaxItems))
ProfilesResponses == ListResponses("profiles", SeqUpTo(RawProfiles, MaxItems))
GetVolumeResponses == {Ok(v) : v \in RawVolumes} \cup RemoteFailures
GetShareResponses == {Ok(v) : v \in RawShares} \cup RemoteFailures
GetSnapshotResponses == {Ok(v) : v \in RawSnapshots} \cup RemoteFailures

\* The optional filters of a storage listing, none of them given.
NoFilters ==
    [start |-> None, limit |-> None, attachment_state |-> None,
     encryption |-> None, name |-> None, operating_system_family |-> None,
     operating_system_architecture |-> None, tag |-> None, zone_name |-> None,
     resource_group_id |-> None, sort |-> None, replication_role |-> None,
     source_volume_id |-> None]

\* The attachments list_volumes and get_volume add when the volume has any.
WithAttachments(info, volume, with_device) ==
    LET Attachment(attachment) ==
            LET a == [id |-> Get(attachment, "id", "unknown"),
                      instance |->
                          [id |-> Get(Get(attachment, "instance", EmptyDict), "id", "unknown"),
                           name |-> Get(Get(attachment, "instance", EmptyDict), "name", "Unknown")],
                      type |-> Get(attachment, "type", "unknown"),
                      status |-> Get(attachment, "status", "unknown")]
            IN IF with_device
               THEN Put(a, "device", Get(attachment, "device", EmptyDict)) ELSE a
    IN IF Has(volume, "volume_attachments") /\ volume.volume_attachments # <<>>
       THEN Put(info, "attachments", Map(volume.volume_attachments, Attachment))
       ELSE info

\* The projection list_volumes makes of a volume.
VolumeInfo(volume) ==
    [id |-> Get(volume, "id", "unknown"),
     name |-> Get(volume, "name", "unknown"),
     status |-> Get(volume, "status", "unknown"),
     capacity |-> Get(volume, "capacity", 0),
     iops |-> Get(volume, "iops", 0),
     profile |-> [name |-> Get(Get(volume, "profile", EmptyDict), "name", "unknown")],
     encryption |-> Get(volume, "encryption", None),
     zone |-> [name |-> Get(Get(volume, "zone", EmptyDict), "name", "unknown")],
     created_at |-> Get(volume, "created_at", "unknown"),
     attachment_state |-> Get(volume, "attachment_state", "unattached")]

\* StorageManager.list_volumes: the whole body is one try block whose
\* except clause returns the error envelope.
list_volumes(self, region, args, resp) ==
    LET params == WithoutNone(
            [k \in {"start", "limit", "attachment_state", "encryption", "name",
                    "operating_system_family", "operating_system_architecture",
                    "tag", "zone_name"} |-> args[k]])
        response_volumes == Get(resp.body, "volumes", <<>>)
        volumes == Map(response_volumes,
                       LAMBDA volume: WithAttachments(VolumeInfo(volume), volume, FALSE))
    IN WithClient(self, region,
        IF resp.kind = "raise"
        THEN Return([error |-> Str(resp.exc), region |-> region,
                     volumes |-> <<>>, count |-> 0])
        ELSE Return([volumes |-> volumes, count |-> Len(volumes),
                     region |-> region,
                     filters |-> [attachment_state |-> args.attachment_state,
                                  encryption |-> args.encryption,
                                  name |-> args.name, tag |-> args.tag,
                                  zone_name |-> args.zone_name]]))

\* The projection list_volume_profiles and list_share_profiles make of a
\* profile: `name` and `href` are read without a default.
ProfileInfo(profile, size_key) ==
    LET info == [name |-> profile.name, family |-> Get(profile, "family", None),
                 href |-> profile.href]
    IN IF Has(profile, "performance")
       THEN Put(info, "performance",
                [k \in {"max_iops", "max_throughput", size_key} |->
                    Get(profile.performance, k, None)])
       ELSE info

\* The body shared by list_volume_profiles and list_share_profiles.
ListProfiles(self, region, size_key, resp) ==
    WithClient(self, region,
        IF resp.kind = "raise"
        THEN Return([error |-> Str(resp.exc), region |-> region,
                     profiles |-> <<>>, count |-> 0])
        ELSE IF ~Has(resp.body, "profiles")
        THEN Return([error |-> Str(KeyError("profiles")), region |-> region,
                     profiles |-> <<>>, count |-> 0])
        ELSE IF FirstMissing(resp.body.profiles, <<"name", "href">>, 1) # None
        THEN Return([error |-> Str(KeyError(FirstMissing(resp.body.profiles,
                                                         <<"name", "href">>, 1))),
                     region |-> region, profiles |-> <<>>, count |-> 0])
        ELSE Return([profiles |-> Map(resp.body.profiles,
                                      LAMBDA profile: ProfileInfo(profile, size_key)),
                     count |-> Len(resp.body.profiles), region |-> region]))

\* StorageManager.list_volume_profiles
list_volume_profiles(self, region, start, limit, resp) ==
    ListProfiles(self, region, "max_volume_size", resp)

\* StorageManager.list_share_profiles
list_share_profiles(self, region, start, limit, sort, resp) ==
    ListProfiles(self, region, "max_share_size", resp)

\* StorageManager.get_volume: {error, volume_id, region} on any exception.
get_volume(self, volume_id, region, resp) ==
    LET response == resp.body
        base == [k \in DOMAIN VolumeInfo(response) \cup
                       {"crn", "resource_group", "bootable", "bandwidth"} |->
                    CASE k = "crn" -> Get(response, "crn", "unknown")
                      [] k = "resource_group" -> Get(response, "resource_group", EmptyDict)
                      [] k = "bootable" -> Get(response, "bootable", FALSE)
                      [] k = "bandwidth" -> Get(response, "bandwidth", None)
                      [] OTHER -> VolumeInfo(response)[k]]
        attached == WithAttachments(base, response, TRUE)
        volume_info == IF Has(response, "user_tags")
                       THEN Put(attached, "user_tags", response.user_tags)
                       ELSE attached
    IN WithClient(self, region,
        IF resp.kind = "raise"
        THEN Return([error |-> Str(resp.exc), volume_id |-> volume_id,
                     region |-> region])
        ELSE Return(volume_info))

\* The fields list_shares and get_share read of a share.
ShareInfo(share) ==
    [id |-> Get(share, "id", "unknown"),
     name |-> Get(share, "name", "unknown"),
     status |-> Get(share, "status", "unknown"),
     size |-> Get(share, "size", 0),
     iops |-> Get(share, "iops", 0),
     profile |-> [name |-> Get(Get(share, "profile", EmptyDict), "name", "unknown")],
     zone |-> [name |-> Get(Get(share, "zone", EmptyDict), "name", "unknown")],
     created_at |-> Get(share, "created_at", "unknown"),
     crn |-> Get(share, "crn", "unknown"),
     resource_group |-> Get(share, "resource_group", EmptyDict),
     replication_role |-> Get(share, "replication_role", None),
     lifecycle_state |-> Get(share, "lifecycle_state", None)]

\* The mount targets added when the share has any.
WithMountTargets(info, share, with_href) ==
    LET Target(target) ==
            LET t == [id |-> Get(target, "id", "unknown"),
                      name |-> Get(target, "name", None),
                      vpc |-> Get(target, "vpc", None),
                      subnet |-> Get(target, "subnet", None)]
            IN IF with_href THEN Put(t, "href", Get(target, "href", "unknown")) ELSE t
    IN IF Has(share, "mount_targets") /\ share.mount_targets # <<>>
       THEN Put(info, "mount_targets", Map(share.mount_targets, Target))
       ELSE info

\* StorageManager.list_shares: error envelope on any exception.
list_shares(self, region, args, resp) ==
    LET response_shares == Get(resp.body, "shares", <<>>)
        shares == Map(response_shares,
                      LAMBDA share: WithMountTargets(ShareInfo(share), share, FALSE))
    IN WithClient(self, region,
        IF resp.kind = "raise"
        THEN Return([error |-> Str(resp.exc), region |-> region,
                     shares |-> <<>>, count |-> 0])
        ELSE Return([shares |-> shares, count |-> Len(shares), region |-> region,
                     filters |-> [resource_group_id |-> args.resource_group_id,
                                  name |-> args.name, sort |-> args.sort,
                                  replication_role |-> args.replication_role]]))

\* StorageManager.get_share: {error, share_id, region} on any exception.
get_share(self, share_id, region, resp) ==
    LET response == resp.body
        base == Put(ShareInfo(response), "href", Get(response, "href", "unknown"))
        mounted == WithMountTargets(base, response, TRUE)
        share_info == IF Has(response, "user_tags")
                      THEN Put(mounted, "user_tags", response.user_tags)
                      ELSE mounted
    IN WithClient(self, region,
        IF resp.kind = "raise"
        THEN Return([error |-> Str(resp.exc), share_id |-> share_id,
                     region |-> region])
        ELSE Return(share_info))

\* The projection list_snapshots and get_snapshot make of a snapshot.
SnapshotInfo(snapshot) ==
    LET info == [id |-> Get(snapshot, "id", "unknown"),
                 name |-> Get(snapshot, "name", "unknown"),
                 status |-> Get(snapshot, "status", "unknown"),
                 size |-> Get(snapshot, "size", 0),
                 minimum_capacity |-> Get(snapshot, "minimum_capacity", 0),
                 resource_group |-> Get(snapshot, "resource_group", EmptyDict),
                 created_at |-> Get(snapshot, "created_at", "unknown"),
                 crn |-> Get(snapshot, "crn", "unknown"),
                 encryption |-> Get(snapshot, "encryption", EmptyDict),
                 lifecycle_state |-> Get(snapshot, "lifecycle_state", "unknown"),
                 href |-> Get(snapshot, "href", "unknown"),
                 bootable |-> Get(snapshot, "bootable", FALSE)]
        Ref(r) == [id |-> Get(r, "id", "unknown"), name |-> Get(r, "name", "unknown"),
                   href |-> Get(r, "href", "unknown")]
        with_source == IF Has(snapshot, "source_volume")
                       THEN Put(info, "source_volume", Ref(snapshot.source_volume))
                       ELSE info
        with_os == IF Has(snapshot, "operating_system")
                   THEN Put(with_source, "operating_system",
                            [k \in {"architecture", "family", "name", "vendor", "version"} |->
                                Get(snapshot.operating_system, k, "unknown")])
                   ELSE with_source
    IN IF Has(snapshot, "backup_policy_plan")
       THEN Put(with_os, "backup_policy_plan", Ref(snapshot.backup_policy_plan))
       ELSE with_os

\* The user tags list_snapshots and get_snapshot copy when present.
WithUserTags(info, snapshot) ==
    IF Has(snapshot, "user_tags")
    THEN Put(info, "user_tags", snapshot.user_tags) ELSE info

\* StorageManager.list_snapshots: error envelope on any exception.
list_snapshots(self, region, args, resp) ==
    LET response_snapshots == Get(resp.body, "snapshots", <<>>)
        snapshots == Map(response_snapshots,
                         LAMBDA snapshot: WithUserTags(SnapshotInfo(snapshot), snapshot))
    IN WithClient(self, region,
        IF resp.kind = "raise"
        THEN Return([error |-> Str(resp.exc), region |-> region,
                     snapshots |-> <<>>, count |-> 0])
        ELSE Return([snapshots |-> snapshots, count |-> Len(snapshots),
                     region |-> region,
                     filters |-> [name |-> args.name,
                                  source_volume_id |-> args.source_volume_id,
                                  resource_group_id |-> args.resource_group_id,
                                  sort |-> args.sort]]))

\* StorageManager.get_snapshot: {error, snapshot_id, region} on any
\* exception.
get_snapshot(self, snapshot_id, region, resp) ==
    LET response == resp.body
        Clone(clone) == [available |-> Get(clone, "available", FALSE),
                         created_at |-> Get(clone, "created_at", "unknown"),
                         zone |-> Get(clone, "zone", EmptyDict)]
        info == SnapshotInfo(response)
        with_clones == IF Has(response, "clones") /\ response.clones # <<>>
                       THEN Put(info, "clones", Map(response.clones, Clone))
                       ELSE info
    IN WithClient(self, region,
        IF resp.kind = "raise"
        THEN Return([error |-> Str(resp.exc), snapshot_id |-> snapshot_id,
                     region |-> region])
        ELSE Return(WithUserTags(with_clones, response)))

\* ------------------------------------------------- VPCManager: VPN gateways
\* VPCManager.list_vpn_gateways: lists and filters like list_public_gateways,
\* stamps `region` on every gateway, and lets every exception of the remote
\* call leave the function.
list_vpn_gateways(self, region, vpc_id, limit, start, resp) ==
    LET items == FilteredItems(resp, "vpn_gateways", vpc_id)
    IN WithClient(self, region,
           IF Raised(items) THEN items
           ELSE Return([vpn_gateways |->
                            Map(items.value, LAMBDA gw: Put(gw, "region", region)),
                        count |-> Len(items.value),
                        region |-> region, vpc_id |-> vpc_id]))

\* ------------------------------------------------------- utility functions
\* risky_ports of analyze_security_rule_risk, in the order of the dict.
RiskyPorts ==
    <<[port |-> 22, service |-> "SSH"], [port |-> 23, service |-> "Telnet"],
      [port |-> 3389, service |-> "RDP"], [port |-> 1433, service |-> "SQL Server"],
      [port |-> 3306, service |-> "MySQL"], [port |-> 5432, service |-> "PostgreSQL"],
      [port |-> 21, service |-> "FTP"], [port |-> 25, service |-> "SMTP"]>>

AnywhereFactor == <<"Source allows traffic from anywhere (0.0.0.0/0)">>
ExposesFactor(entry) == <<"Exposes ", entry.service, " (port ", entry.port, ")">>
WideRangeFactor(port_min, port_max) ==
    <<"Very wide port range (", port_min, "-", port_max, ")">>

\* The loop `for port, service in risky_ports.items()` from the i-th entry
\* on; acc is risk_level and risk_factors so far.
RECURSIVE risky_ports_loop(_, _, _, _, _)
risky_ports_loop(i, protocol, port_min, port_max, acc) ==
    IF i > Len(RiskyPorts) THEN acc
    ELSE LET entry == RiskyPorts[i]
         IN IF port_min <= entry.port /\ entry.port <= port_max /\ protocol = "tcp"
            THEN risky_ports_loop(i + 1, protocol, port_min, port_max,
                     [risk_level |->
                          IF entry.port \in {22, 23, 3389} /\ acc.risk_level # "high"
                          THEN "medium" ELSE acc.risk_level,
                      risk_factors |-> Append(acc.risk_factors, ExposesFactor(entry))])
            ELSE risky_ports_loop(i + 1, protocol, port_min, port_max, acc)

\* The body of `if rule.get('direction') == 'inbound'`, with the escalation
\* of the commonly attacked ports left out of the loop.
RiskWithoutPortEscalation(rule) ==
    LET remote == Get(rule, "remote", EmptyDict)
        port_min == Get(rule, "port_min", 0)
        port_max == Get(rule, "port_max", 65535)
        anywhere == Get(remote, "cidr_block", None) = "0.0.0.0/0"
        exposed == SelectSeq(RiskyPorts,
                       LAMBDA e: port_min <= e.port /\ e.port <= port_max
                                 /\ Get(rule, "protocol", None) = "tcp")
        wide == port_max - port_min > 1000
    IN [risk_level |-> IF anywhere THEN "high" ELSE IF wide THEN "medium" ELSE "low",
        risk_factors |->
            (IF anywhere THEN <<AnywhereFactor>> ELSE <<>>)
                \o [i \in 1..Len(exposed) |-> ExposesFactor(exposed[i])]
                \o (IF wide THEN <<WideRangeFactor(port_min, port_max)>> ELSE <<>>)]

\* The body of `if rule.get('direction') == 'inbound'`: risk_level and
\* risk_factors after the three checks.
InboundRisk(rule) ==
    LET remote == Get(rule, "remote", EmptyDict)
        port_min == Get(rule, "port_min", 0)
        port_max == Get(rule, "port_max", 65535)
        source ==
            IF Get(remote, "cidr_block", None) = "0.0.0.0/0"
            THEN [risk_level |-> "high", risk_factors |-> <<AnywhereFactor>>]
            ELSE [risk_level |-> "low", risk_factors |-> <<>>]
        ports == risky_ports_loop(1, Get(rule, "protocol", None), port_min, port_max,
                                  source)
    IN IF port_max - port_min > 1000
       THEN [risk_level |-> IF ports.risk_level = "low" THEN "medium"
                            ELSE ports.risk_level,
             risk_factors |-> Append(ports.risk_factors,
                                     WideRangeFactor(port_min, port_max))]
       ELSE ports

\* analyze_security_rule_risk
analyze_security_rule_risk(rule) ==
    LET risk == IF Get(rule, "direction", None) = "inbound" THEN InboundRisk(rule)
                ELSE [risk_level |-> "low", risk_factors |-> <<>>]
    IN [rule_id |-> Get(rule, "id", None),
        risk_level |-> risk.risk_level,
        risk_factors |-> risk.risk_factors,
        protocol |-> Get(rule, "protocol", None),
        direction |-> Get(rule, "direction", None),
        port_range |-> IF Has(rule, "port_min") /\ rule.port_min # 0
                       THEN <<rule.port_min, "-", Get(rule, "port_max", "any")>>
                       ELSE <<"all">>]

\* ---- analyze_backup_policy_health
\* Longest job list the health analysis is applied to (it reads ten jobs).
MaxJobs == 11

UnboundLocalError(name) ==
    [type |-> "UnboundLocalError",
     msg |-> <<"cannot access local variable '", name,
               "' where it is not associated with a value">>]

\* The created_at of a job: a timestamp with a UTC offset is held as its age
\* in days at the time of the call, (datetime.now().astimezone() -
\* last_job_date).days; "unparsable" is a text fromisoformat rejects or a
\* timestamp without offset, whose subtraction raises TypeError.
Ages == {0, 3, 4, 7, 8}
CreatedAts == {[days_ago |-> a] : a \in Ages} \cup {[unparsable |-> TRUE]}
Parseable(created_at) == Has(created_at, "days_ago")

\* jobs[:10]
FirstTenJobs(jobs) == SubSeq(jobs, 1, IF Len(jobs) < 10 THEN Len(jobs) ELSE 10)

\* The checks on the recent jobs without the check of their number.
JobChecksWithoutFewJobs(jobs) ==
    LET recent_jobs == FirstTenJobs(jobs)
        failed == Len(SelectSeq(recent_jobs, LAMBDA j: Get(j, "status", None) = "failed"))
        considered == Len(recent_jobs)
        high == failed > 0 /\ 2 * failed > considered
        some == failed > 0 /\ ~high /\ 5 * failed > considered
        dated == Has(recent_jobs[1], "created_at") /\ Parseable(recent_jobs[1].created_at)
        days_ago == IF dated THEN recent_jobs[1].created_at.days_ago ELSE 0
        Rate(text) == <<text, failed, "/", considered, " recent jobs failed">>
        Last == <<"Last backup job was ", days_ago, " days ago">>
    IN [penalty |-> (IF high THEN 30 ELSE IF some THEN 15 ELSE 0)
                        + (IF days_ago > 7 THEN 20 ELSE IF days_ago > 3 THEN 10 ELSE 0),
        issues |-> (IF high THEN <<Rate("High failure rate: ")>>
                    ELSE IF some THEN <<Rate("Some recent failures: ")>> ELSE <<>>)
                   \o (IF days_ago > 3 THEN <<Last>> ELSE <<>>),
        recommendations |->
                   (IF high THEN <<"Investigate job failures and fix underlying issues">>
                    ELSE IF some THEN <<"Monitor job failures and address any issues">>
                    ELSE <<>>)
                   \o (IF days_ago > 7 THEN <<"Check if backup schedule is still active">>
                       ELSE <<>>)]

\* The else branch of `if not jobs`: what the checks on the recent jobs take
\* off the score and the issues and recommendations they add, in order.
JobChecks(jobs) ==
    LET recent_jobs == FirstTenJobs(jobs)
        failed == Len(SelectSeq(recent_jobs, LAMBDA j: Get(j, "status", None) = "failed"))
        considered == Len(recent_jobs)
        \* failure_rate > 0.5 and failure_rate > 0.2 on failed / considered
        high == failed > 0 /\ 2 * failed > considered
        some == failed > 0 /\ ~high /\ 5 * failed > considered
        few == considered < 5
        \* the try block: the date of recent_jobs[0]; any exception skips it
        dated == Has(recent_jobs[1], "created_at") /\ Parseable(recent_jobs[1].created_at)
        days_ago == IF dated THEN recent_jobs[1].created_at.days_ago ELSE 0
        Rate(text) == <<text, failed, "/", considered, " recent jobs failed">>
        Last == <<"Last backup job was ", days_ago, " days ago">>
    IN [penalty |-> (IF high THEN 30 ELSE IF some THEN 15 ELSE 0)
                        + (IF few THEN 10 ELSE 0)
                        + (IF days_ago > 7 THEN 20 ELSE IF days_ago > 3 THEN 10 ELSE 0),
        issues |-> (IF high THEN <<Rate("High failure rate: ")>>
                    ELSE IF some THEN <<Rate("Some recent failures: ")>> ELSE <<>>)
                   \o (IF few THEN << <<"Few recent backup jobs">> >> ELSE <<>>)
                   \o (IF days_ago > 3 THEN <<Last>> ELSE <<>>),
        recommendations |->
                   (IF high THEN <<"Investigate job failures and fix underlying issues">>
                    ELSE IF some THEN <<"Monitor job failures and address any issues">>
                    ELSE <<>>)
                   \o (IF few THEN <<"Consider increasing backup frequency if appropriate">>
                       ELSE <<>>)
                   \o (IF days_ago > 7 THEN <<"Check if backup schedule is still active">>
                       ELSE <<>>)]

\* The score, status, issues and recommendations analyze_backup_policy_health
\* has computed when it reaches its return statement.
HealthFindings(policy, jobs) ==
    LET unstable == Get(policy, "lifecycle_state", None) # "stable"
        state == [penalty |-> IF unstable THEN 30 ELSE 0,
                  issues |-> IF unstable
                             THEN << <<"Policy is in ",
                                       Get(policy, "lifecycle_state", "unknown"),
                                       " state">> >>
                             ELSE <<>>,
                  recommendations |-> IF unstable
                                      THEN <<"Ensure policy is in stable state">>
                                      ELSE <<>>]
        checks == IF jobs = <<>>
                  THEN [penalty |-> 40,
                        issues |-> << <<"No backup jobs found">> >>,
                        recommendations |->
                            <<"Verify that backup schedules are active and resources are attached">>]
                  ELSE JobChecks(jobs)
        health_score == 100 - state.penalty - checks.penalty
    IN [health_score |-> IF health_score > 0 THEN health_score ELSE 0,
        status |-> IF health_score >= 80 THEN "healthy"
                   ELSE IF health_score >= 60 THEN "warning" ELSE "critical",
        issues |-> state.issues \o checks.issues,
        recommendations |-> state.recommendations \o checks.recommendations,
        analysis_timestamp |-> Timestamp]

\* analyze_backup_policy_health.  `from datetime import datetime, timedelta`
\* inside the function makes datetime a local name of the whole function,
\* bound only once that statement has run: it is the first statement of the
\* try block, reached exactly when jobs is not empty.  The return statement
\* reads datetime.now(): with the name unbound it raises UnboundLocalError.
analyze_backup_policy_health(policy, jobs) ==
    LET datetime_bound == jobs # <<>>
    IN IF datetime_bound THEN Return(HealthFindings(policy, jobs))
       ELSE Raise(UnboundLocalError("datetime"))

\* The policies and job lists the health analysis is applied to: n jobs of
\* which those at the positions of `failed` failed; the first job carries
\* the created_at under test (or none), the other jobs are a day older.
HealthPolicies ==
    {[id |-> "bp-1", lifecycle_state |-> "stable"],
     [id |-> "bp-1", lifecycle_state |-> "failed"], [id |-> "bp-1"]}
JobList(n, failed, created) ==
    [i \in 1..n |->
        [status |-> IF i \in failed THEN "failed" ELSE "completed"]
            @@ (IF i = 1 THEN created ELSE [created_at |-> [days_ago |-> 9]])]
HealthJobLists ==
    {JobList(n, failed, created) :
        n \in {0, 1, 2, 3, 5, MaxJobs},
        failed \in {{}, {1}, {1, 2}, {1, 2, 3}, 1..MaxJobs, {MaxJobs}},
        created \in {[created_at |-> c] : c \in CreatedAts} \cup {EmptyDict}}

\* The rules analyze_security_rule_risk is applied to: with and without a
\* port range, with a CIDR or a security group as remote or with none.
PortRanges == {<<22, 22>>, <<3389, 3389>>, <<80, 80>>, <<20, 25>>, <<0, 22>>,
               <<1000, 2000>>, <<1000, 2001>>, <<1, 65535>>}
RiskRules ==
    {[id |-> "rule-1", direction |-> d, protocol |-> p] @@ r @@ pr :
        d \in {"inbound", "outbound"}, p \in {"tcp", "udp", "all"},
        r \in {[remote |-> [cidr_block |-> "0.0.0.0/0"]],
               [remote |-> [cidr_block |-> "10.0.0.0/8"]],
               [remote |-> [id |-> "sg-1"]], EmptyDict},
        pr \in {[port_min |-> x[1], port_max |-> x[2]] : x \in PortRanges}
                  \cup {EmptyDict}}

\* ------------------------------------------------------------ the MCP server
VARIABLES
    env_api_key,      \* os.environ.get('IBMCLOUD_API_KEY'): None when unset
    vpc_manager,      \* VPCMCPServer.vpc_manager: NoneObject or the manager
    storage_manager,  \* VPCMCPServer.storage_manager: NoneObject or the manager
    last_call,        \* the tool call just answered, until its reply is sent:
                      \* its name and arguments, the responses of the service
                      \* (feed), the manager whose method ran (handler), the
                      \* method's outcome and cache requests, and the reply
    handed,           \* history: every (region, client) a cache handed out
    ctor_calls,       \* history: constructor runs per (manager, region)
    pager,            \* a caller reading a remote collection page by page:
                      \* the collection, the records it has got and the
                      \* cursor of its next call; NoPager when there is none
    earlier,          \* history: a call answered earlier and the last one,
                      \* each with the region list the manager held when it
                      \* began; NotKept when no history is kept
    tasks             \* invocations in flight on the one VPCManager: the
                      \* answers of the service, the manager they started
                      \* on, and the frame of each (its position and locals)

vars == <<env_api_key, vpc_manager, storage_manager, last_call, handed, ctor_calls,
          pager, tasks, earlier>>

Idle == [name |-> "idle"]
Owners == {"vpc", "storage"}
\* The call just answered ran the manager method `name`.
Ran(name) == last_call.name = name /\ last_call.handler # "none"
RanOneOf(names) == last_call.name \in names /\ last_call.handler # "none"

\* TextContent(type="text", text=json.dumps(result, indent=2))
JsonText(result) == [type |-> "text", text |-> [json |-> result, indent |-> 2]]
\* TextContent(type="text", text=f"Error: {str(e)}")
ErrorText(e) == [type |-> "text", text |-> [prefix |-> "Error: ", message |-> Str(e)]]
IsErrorText(reply) == DOMAIN reply.text = {"prefix", "message"}
IsJsonText(reply) == DOMAIN reply.text = {"json", "indent"}

\* call_tool with `except Exception` narrowed to ApiException: any other
\* exception leaves call_tool.
ReplyCatchesApiOnly(out) ==
    IF Raised(out) /\ IsInstance(out.exc, "ApiException") THEN ErrorText(out.exc)
    ELSE IF Raised(out) THEN [type |-> "raised", text |-> [exception |-> out.exc]]
    ELSE JsonText(out.value)

\* The two returns of call_tool: the JSON text of the handler's result, or,
\* from `except Exception`, the error text of whatever was raised.
Reply(out) ==
    IF Raised(out) /\ IsInstance(out.exc, "Exception") THEN ErrorText(out.exc)
    ELSE JsonText(out.value)

\* No history of calls is kept.
NotKept == [on |-> FALSE]
NoCall == [name |-> "none"]
\* The history after a call: the call just answered, with the region list
\* the VPCManager held when the call began, becomes the last one.
Noted(name, arguments, feed, out) ==
    IF ~earlier.on THEN earlier
    ELSE [earlier EXCEPT !.last =
             [name |-> name, arguments |-> arguments, feed |-> feed, out |-> out,
              regions |-> IF vpc_manager = NoneObject THEN <<>> ELSE vpc_manager.regions]]

\* No invocations run concurrently.
NoTasks == [frames |-> EmptyDict]
\* No caller is paging.
NoPager == [tool |-> "none"]
\* The fields of a result that could carry the cursor of the next page.
CursorFields == {"next", "start", "next_start", "cursor"}
\* The cursor a paging caller finds in a result: the value of its cursor
\* field, None when the result has no such field.
ReturnedCursor(result) ==
    IF DOMAIN result \cap CursorFields = {} THEN None
    ELSE result[CHOOSE k \in DOMAIN result \cap CursorFields : TRUE]
\* The paging caller after a call: it keeps the records of the result and
\* re-invokes with the cursor the result gives it; without a cursor it has
\* nothing to re-invoke with and stops.
Paged(out) ==
    IF pager = NoPager THEN pager
    ELSE LET items == IF Returned(out) THEN Get(out.value, pager.key, <<>>) ELSE <<>>
             cursor == IF Returned(out) THEN ReturnedCursor(out.value) ELSE None
         IN [pager EXCEPT !.seen = @ \cup {items[i].id : i \in 1..Len(items)},
                          !.start = cursor,
                          !.finished = (cursor = None)]

\* The end of call_tool: the reply is built from the outcome of the handler
\* and the managers keep what the handler did to them.
Answer(name, arguments, feed, handler, vm, sm, out, gets) ==
    /\ vpc_manager' = vm
    /\ storage_manager' = sm
    /\ last_call' = [name |-> name, arguments |-> arguments, feed |-> feed,
                     handler |-> handler, out |-> out, gets |-> gets,
                     reply |-> Reply(out)]
    /\ handed' = handed \cup
           {[region |-> gets[i].region, client |-> gets[i].client] : i \in 1..Len(gets)}
    /\ ctor_calls' =
           [k \in DOMAIN ctor_calls |->
               ctor_calls[k] + Cardinality({i \in 1..Len(gets) :
                   gets[i].built /\ <<gets[i].client.owner, gets[i].region>> = k})]
    /\ pager' = Paged(out)
    /\ earlier' = Noted(name, arguments, feed, out)
    /\ UNCHANGED <<env_api_key, tasks>>

\* The manager a routed method runs on: the stored one or, on the first
\* call that finds the API key, the one call_tool creates.
ManagerAtCall(owner) ==
    LET authenticator == [apikey |-> env_api_key]
    IN IF owner = "storage"
       THEN (IF vpc_manager = NoneObject THEN StorageManager(authenticator)
             ELSE storage_manager)
       ELSE (IF vpc_manager = NoneObject THEN VPCManager(authenticator)
             ELSE vpc_manager)

\* call_tool without the test of the API key: the managers are created from
\* whatever the environment holds and the routed method runs.
CallToolSkipsKeyTest(name, arguments, feed, owner, r) ==
    Answer(name, arguments, feed, owner,
           IF owner = "storage" THEN ManagerAtCall("vpc") ELSE r.self,
           IF owner = "storage" THEN r.self ELSE ManagerAtCall("storage"),
           r.out, r.gets)

\* call_tool creating new managers on every call that finds the API key.
CallToolRecreatesManagers(name, arguments, feed, owner, r) ==
    IF ~Truthy(env_api_key)
    THEN Answer(name, arguments, feed, "none", vpc_manager, storage_manager,
                Raise(ValueError("IBMCLOUD_API_KEY environment variable not set")),
                <<>>)
    ELSE Answer(name, arguments, feed, owner,
                VPCManager([apikey |-> env_api_key]),
                StorageManager([apikey |-> env_api_key]),
                r.out, r.gets)

\* call_tool: the managers are created on the first call that finds the API
\* key; without the key the ValueError is answered as error text.  r is
\* what the routed method, run on ManagerAtCall(owner), hands back; owner
\* is "none" when the routing raises before any manager method runs.
call_tool(name, arguments, feed, owner, r) ==
    IF vpc_manager = NoneObject /\ ~Truthy(env_api_key)
    THEN Answer(name, arguments, feed, "none", vpc_manager, storage_manager,
                Raise(ValueError("IBMCLOUD_API_KEY environment variable not set")),
                <<>>)
    ELSE Answer(name, arguments, feed, owner,
                IF owner = "storage" THEN ManagerAtCall("vpc") ELSE r.self,
                IF owner = "storage" THEN r.self ELSE ManagerAtCall("storage"),
                r.out, r.gets)

VpcFilters == {None, "vpc-1"}

ListRegions ==
    /\ last_call = Idle
    /\ \E resp \in RegionsResponses :
           call_tool("list_regions", EmptyDict, <<resp>>, "vpc",
                     list_regions(ManagerAtCall("vpc"), resp))

ListVpcs ==
    /\ last_call = Idle
    /\ \E region \in Regions \cup {None} :
       \E regions_resp \in (IF FetchesRegions(ManagerAtCall("vpc"), region)
                            THEN RegionsResponses ELSE {NotCalled}) :
       \E resps \in [1..Len(RegionsToCheck(ManagerAtCall("vpc"), region, regions_resp))
                       -> VpcsResponses] :
           call_tool("list_vpcs", [region |-> region],
                     [regions |-> regions_resp, vpcs |-> resps], "vpc",
                     list_vpcs(ManagerAtCall("vpc"), region, regions_resp, resps))

GetVpc ==
    /\ last_call = Idle
    /\ \E vpc_id \in VpcIds, region \in Regions, resp \in GetVpcResponses :
           call_tool("get_vpc", [vpc_id |-> vpc_id, region |-> region], <<resp>>, "vpc",
                     get_vpc(ManagerAtCall("vpc"), vpc_id, region, resp))

ListSubnets ==
    /\ last_call = Idle
    /\ \E region \in Regions, vpc_id \in VpcFilters,
          resp \in ListResponses("subnets", RawLists) :
           call_tool("list_subnets", [region |-> region, vpc_id |-> vpc_id],
                     <<resp>>, "vpc",
                     list_subnets(ManagerAtCall("vpc"), region, vpc_id, resp))

ListInstances ==
    /\ last_call = Idle
    /\ \E region \in Regions, vpc_id \in VpcFilters,
          resp \in ListResponses("instances", RawLists) :
           call_tool("list_instances", [region |-> region, vpc_id |-> vpc_id],
                     <<resp>>, "vpc",
                     list_instances(ManagerAtCall("vpc"), region, vpc_id, resp))

ListInstanceProfiles ==
    /\ last_call = Idle
    /\ \E region \in Regions, resp \in ProfilesResponses :
           call_tool("list_instance_profiles", [region |-> region], <<resp>>, "vpc",
                     list_instance_profiles(ManagerAtCall("vpc"), region, resp))

ListPublicGateways ==
    /\ last_call = Idle
    /\ \E region \in Regions, vpc_id \in VpcFilters,
          resp \in ListResponses("public_gateways", RawLists) :
           call_tool("list_public_gateways", [region |-> region, vpc_id |-> vpc_id],
                     <<resp>>, "vpc",
                     list_public_gateways(ManagerAtCall("vpc"), region, vpc_id, resp))

ListSecurityGroups ==
    /\ last_call = Idle
    /\ \E region \in Regions, vpc_id \in VpcFilters,
          resp \in ListResponses("security_groups", RawLists) :
           call_tool("list_security_groups", [region |-> region, vpc_id |-> vpc_id],
                     <<resp>>, "vpc",
                     list_security_groups(ManagerAtCall("vpc"), region, vpc_id, resp))

GetSecurityGroup ==
    /\ last_call = Idle
    /\ \E region \in Regions,
          resp \in {Ok(RawRecord("r-1", "vpc-1"))} \cup RemoteFailures :
           call_tool("get_security_group",
                     [security_group_id |-> "r-1", region |-> region], <<resp>>, "vpc",
                     get_security_group(ManagerAtCall("vpc"), "r-1", region, resp))

ListSecurityGroupRules ==
    /\ last_call = Idle
    /\ \E region \in Regions, resp \in RulesResponses :
           call_tool("list_security_group_rules",
                     [security_group_id |-> "r-1", region |-> region], <<resp>>, "vpc",
                     list_security_group_rules(ManagerAtCall("vpc"), "r-1", region, resp))

\* The group listings and rule listings the composite tools are run on.
SampleGroupsResponses ==
    {Ok([security_groups |-> <<RawRecord("r-1", "vpc-1"), RawRecord("r-2", "vpc-1")>>]),
     Ok([security_groups |-> <<RawRecord("r-1", "vpc-2")>>]),
     Ok(EmptyDict)} \cup RemoteFailures
\* A rule of a security group: its protocol, direction, port range (none
\* when lo > hi) and remote (a CIDR, or a security group when cidr is None).
SampleRule(id, protocol, direction, lo, hi, cidr) ==
    [id |-> id, protocol |-> protocol, direction |-> direction]
        @@ (IF lo <= hi THEN [port_min |-> lo, port_max |-> hi] ELSE EmptyDict)
        @@ [remote |-> IF cidr = None THEN [id |-> "sg-1"] ELSE [cidr_block |-> cidr]]
SampleRuleLists ==
    {<<>>,
     <<SampleRule("rule-1", "tcp", "inbound", 22, 22, "0.0.0.0/0")>>,
     <<SampleRule("rule-2", "tcp", "inbound", 22, 22, "10.0.0.0/8")>>,
     <<SampleRule("rule-1", "tcp", "inbound", 20, 25, "0.0.0.0/0"),
       SampleRule("rule-2", "tcp", "inbound", 80, 80, "0.0.0.0/0")>>,
     <<SampleRule("rule-1", "tcp", "inbound", 1, 0, "0.0.0.0/0")>>,
     <<SampleRule("rule-1", "udp", "inbound", 22, 22, "0.0.0.0/0"),
       SampleRule("rule-2", "tcp", "outbound", 22, 22, "0.0.0.0/0")>>,
     <<SampleRule("rule-1", "tcp", "inbound", 22, 22, None),
       SampleRule("rule-2", "tcp", "inbound", 22, 22, "0.0.0.0/0"),
       SampleRule("rule-3", "tcp", "inbound", 1, 65535, "0.0.0.0/0")>>}
SampleRulesResponses ==
    {Ok([rules |-> l]) : l \in SampleRuleLists} \cup {Ok(EmptyDict)} \cup RemoteFailures

AnalyzeSshSecurityGroups ==
    /\ last_call = Idle
    /\ \E region \in Regions, vpc_id \in VpcFilters, sg_resp \in SampleGroupsResponses :
       \E rules_resps \in [1..GroupsListed(vpc_id, sg_resp) -> SampleRulesResponses] :
           call_tool("analyze_ssh_security_groups",
                     [region |-> region, vpc_id |-> vpc_id],
                     [groups |-> sg_resp, rules |-> rules_resps], "vpc",
                     analyze_ssh_security_groups(ManagerAtCall("vpc"), region, vpc_id,
                                                 sg_resp, rules_resps))

\* The responses analyze_security_groups_by_protocol is run on: two groups
\* of two VPCs, and per group a rule listing or a failure.
ProtocolGroupsResponses ==
    {Ok([security_groups |-> <<RawRecord("r-1", "vpc-1"), RawRecord("r-2", "vpc-2")>>]),
     Fail(ApiException("Not Found"))}
ProtocolRulesResponses ==
    {Ok([rules |-> <<SampleRule("rule-1", "tcp", "inbound", 20, 25, "0.0.0.0/0"),
                     SampleRule("rule-2", "tcp", "inbound", 80, 80, "0.0.0.0/0")>>]),
     Ok([rules |-> <<SampleRule("rule-1", "udp", "inbound", 22, 22, "0.0.0.0/0"),
                     SampleRule("rule-2", "tcp", "inbound", 22, 22, "10.0.0.0/8")>>])}
        \cup RemoteFailures

AnalyzeSecurityGroupsByProtocol ==
    /\ last_call = Idle
    /\ \E region \in Regions, protocol \in {"tcp", "udp"}, port \in {NoneNumber, 22, 80},
          source_cidr \in {"0.0.0.0/0", "10.0.0.0/8"}, vpc_id \in VpcFilters,
          sg_resp \in ProtocolGroupsResponses :
       \E rules_resps \in [1..GroupsListed(vpc_id, sg_resp) -> ProtocolRulesResponses] :
           call_tool("analyze_security_groups_by_protocol",
                     [region |-> region, protocol |-> protocol, port |-> port,
                      source_cidr |-> source_cidr, vpc_id |-> vpc_id],
                     [groups |-> sg_resp, rules |-> rules_resps], "vpc",
                     analyze_security_groups_by_protocol(
                         ManagerAtCall("vpc"), region, protocol, port, source_cidr,
                         vpc_id, sg_resp, rules_resps))

ListFloatingIps ==
    /\ last_call = Idle
    /\ \E region \in Regions, resp \in ListResponses("floating_ips", RawLists) :
           call_tool("list_floating_ips", [region |-> region], <<resp>>, "vpc",
                     list_floating_ips(ManagerAtCall("vpc"), region, resp))

\* The responses the sub-queries of get_vpc_resources_summary are run on
\* under the server: each sub-query fails or answers one fixed list; the
\* subnet listing may also answer a body without its key, and the VPC may
\* lack the `status` the summary reads.
SampleList == <<RawRecord("r-1", "vpc-1"), RawRecord("r-2", "vpc-2")>>
SampleResponses(key) == {Ok([k \in {key} |-> SampleList]), Ok(EmptyDict)} \cup RemoteFailures
SampleSummaryFeeds ==
    {[vpc |-> a, subnets |-> b, instances |-> c, security_groups |-> d,
      public_gateways |-> e, ssh_groups |-> f, ssh_rules |-> g] :
        a \in {Ok(RawVpc("vpc-1")), Ok([id |-> "vpc-1", name |-> "vpc-1"]),
                Fail(ConnectionError("unreachable"))},
        b \in SampleResponses("subnets"),
        c \in {Ok([instances |-> SampleList]), Fail(ApiException("Not Found"))},
        d \in {Ok([security_groups |-> SampleList]),
                Fail(ConnectionError("unreachable"))},
        e \in {Ok([public_gateways |-> SampleList]), Fail(ApiException("Not Found"))},
        f \in {Ok([security_groups |-> SampleList]), Fail(ApiException("Not Found"))},
        g \in {[i \in 1..2 |-> x] :
                  x \in {Ok([rules |-> <<r>>]) : r \in RawRules}
                           \cup {Fail(ConnectionError("unreachable"))}}}

GetVpcResourcesSummary ==
    /\ last_call = Idle
    /\ \E region \in Regions, feed \in SampleSummaryFeeds :
           call_tool("get_vpc_resources_summary",
                     [vpc_id |-> "vpc-1", region |-> region], feed, "vpc",
                     get_vpc_resources_summary(ManagerAtCall("vpc"), "vpc-1", region, feed))

ListBackupPolicies ==
    /\ last_call = Idle
    /\ \E region \in Regions, resp \in BackupPoliciesResponses :
           call_tool("list_backup_policies", [region |-> region], <<resp>>, "vpc",
                     list_backup_policies(ManagerAtCall("vpc"), region, None, None, None,
                                          None, None, resp))

ListBackupPolicyJobs ==
    /\ last_call = Idle
    /\ \E region \in Regions, resp \in JobsResponses :
           call_tool("list_backup_policy_jobs",
                     [backup_policy_id |-> "bp-1", region |-> region], <<resp>>, "vpc",
                     list_backup_policy_jobs(ManagerAtCall("vpc"), "bp-1", region,
                                             None, None, resp))

ListBackupPolicyPlans ==
    /\ last_call = Idle
    /\ \E region \in Regions, resp \in PlansResponses :
           call_tool("list_backup_policy_plans",
                     [backup_policy_id |-> "bp-1", region |-> region], <<resp>>, "vpc",
                     list_backup_policy_plans(ManagerAtCall("vpc"), "bp-1", region,
                                              None, resp))

SampleBackupFeeds ==
    {[policy |-> a, plans |-> b, jobs |-> c] :
        a \in {Ok(CHOOSE p \in RawPolicies : p.id = "bp-1")} \cup RemoteFailures,
        b \in {Ok([plans |-> <<CHOOSE p \in RawPlans : TRUE>>])} \cup RemoteFailures,
        c \in {Ok([jobs |-> <<j>>]) : j \in RawJobs} \cup RemoteFailures}

GetBackupPolicySummary ==
    /\ last_call = Idle
    /\ \E region \in Regions, feed \in SampleBackupFeeds :
           call_tool("get_backup_policy_summary",
                     [backup_policy_id |-> "bp-1", region |-> region], feed, "vpc",
                     get_backup_policy_summary(ManagerAtCall("vpc"), "bp-1", region, feed))

ListRoutingTables ==
    /\ last_call = Idle
    /\ \E region \in Regions, name \in Names \cup {NoName},
          resp \in RoutingTablesResponses :
           call_tool("list_routing_tables",
                     [region |-> region, vpc_id |-> "vpc-1", name |-> name],
                     <<resp>>, "vpc",
                     list_routing_tables(ManagerAtCall("vpc"), region, "vpc-1", None, None,
                                         None, name, resp))

GetRoutingTable ==
    /\ last_call = Idle
    /\ \E region \in Regions, resp \in GetRoutingTableResponses :
           call_tool("get_routing_table",
                     [vpc_id |-> "vpc-1", routing_table_id |-> "r-1", region |-> region],
                     <<resp>>, "vpc",
                     get_routing_table(ManagerAtCall("vpc"), "vpc-1", "r-1", region, resp))

FindRoutingTableByName ==
    /\ last_call = Idle
    /\ \E region \in Regions, name \in Names \cup {NoName}, resp \in LookupResponses :
           call_tool("find_routing_table_by_name",
                     [region |-> region, vpc_id |-> "vpc-1", name |-> name],
                     <<resp>>, "vpc",
                     find_routing_table_by_name(ManagerAtCall("vpc"), region, "vpc-1",
                                                name, resp))

ListVpnGateways ==
    /\ last_call = Idle
    /\ \E region \in Regions, vpc_id \in VpcFilters,
          resp \in ListResponses("vpn_gateways", RawLists) :
           call_tool("list_vpn_gateways", [region |-> region, vpc_id |-> vpc_id],
                     <<resp>>, "vpc",
                     list_vpn_gateways(ManagerAtCall("vpc"), region, vpc_id, 50, None, resp))

ListVolumes ==
    /\ last_call = Idle
    /\ \E region \in Regions, resp \in VolumesResponses :
           call_tool("list_volumes", [region |-> region], <<resp>>, "storage",
                     list_volumes(ManagerAtCall("storage"), region, NoFilters, resp))

ListVolumeProfiles ==
    /\ last_call = Idle
    /\ \E region \in Regions, resp \in ProfilesResponses :
           call_tool("list_volume_profiles", [region |-> region], <<resp>>, "storage",
                     list_volume_profiles(ManagerAtCall("storage"), region, None, None, resp))

GetVolume ==
    /\ last_call = Idle
    /\ \E region \in Regions, resp \in GetVolumeResponses :
           call_tool("get_volume", [volume_id |-> "r-1", region |-> region],
                     <<resp>>, "storage",
                     get_volume(ManagerAtCall("storage"), "r-1", region, resp))

ListShares ==
    /\ last_call = Idle
    /\ \E region \in Regions, resp \in SharesResponses :
           call_tool("list_shares", [region |-> region], <<resp>>, "storage",
                     list_shares(ManagerAtCall("storage"), region, NoFilters, resp))

GetShare ==
    /\ last_call = Idle
    /\ \E region \in Regions, resp \in GetShareResponses :
           call_tool("get_share", [share_id |-> "r-1", region |-> region],
                     <<resp>>, "storage",
                     get_share(ManagerAtCall("storage"), "r-1", region, resp))

ListShareProfiles ==
    /\ last_call = Idle
    /\ \E region \in Regions, resp \in ProfilesResponses :
           call_tool("list_share_profiles", [region |-> region], <<resp>>, "storage",
                     list_share_profiles(ManagerAtCall("storage"), region, None, None, None, resp))

ListSnapshots ==
    /\ last_call = Idle
    /\ \E region \in Regions, resp \in SnapshotsResponses :
           call_tool("list_snapshots", [region |-> region], <<resp>>, "storage",
                     list_snapshots(ManagerAtCall("storage"), region, NoFilters, resp))

GetSnapshot ==
    /\ last_call = Idle
    /\ \E region \in Regions, resp \in GetSnapshotResponses :
           call_tool("get_snapshot", [snapshot_id |-> "r-1", region |-> region],
                     <<resp>>, "storage",
                     get_snapshot(ManagerAtCall("storage"), "r-1", region, resp))

\* The final else of the routing: `raise ValueError(f"Unknown tool: {name}")`.
UnknownTool ==
    /\ last_call = Idle
    /\ call_tool("no_such_tool", EmptyDict, <<>>, "none",
                 Done(ManagerAtCall("vpc"),
                      Raise(ValueError("Unknown tool: no_such_tool")), <<>>))

\* A call without the required `region`: arguments['region'] raises KeyError
\* while the handler's arguments are evaluated, before the handler runs.
MissingRegion ==
    /\ last_call = Idle
    /\ \E name \in {"list_subnets", "list_volumes", "list_routing_tables"} :
           call_tool(name, EmptyDict, <<>>, "none",
                     Done(ManagerAtCall("vpc"), Raise(KeyError("region")), <<>>))

Deliver ==
    /\ last_call # Idle
    /\ last_call' = Idle
    /\ UNCHANGED <<env_api_key, vpc_manager, storage_manager, handed, ctor_calls, pager,
                   tasks, earlier>>

Init ==
    /\ env_api_key \in {None, "", "api-key"}
    /\ vpc_manager = NoneObject
    /\ storage_manager = NoneObject
    /\ last_call = Idle
    /\ handed = {}
    /\ ctor_calls = [k \in Owners \X Regions |-> 0]
    /\ pager = NoPager
    /\ tasks = NoTasks
    /\ earlier = NotKept

Next ==
    \/ ListRegions
    \/ ListVpcs
    \/ GetVpc
    \/ ListSubnets
    \/ ListInstances
    \/ ListInstanceProfiles
    \/ ListPublicGateways
    \/ ListSecurityGroups
    \/ GetSecurityGroup
    \/ ListSecurityGroupRules
    \/ AnalyzeSshSecurityGroups
    \/ AnalyzeSecurityGroupsByProtocol
    \/ ListFloatingIps
    \/ GetVpcResourcesSummary
    \/ ListBackupPolicies
    \/ ListBackupPolicyJobs
    \/ ListBackupPolicyPlans
    \/ GetBackupPolicySummary
    \/ ListRoutingTables
    \/ GetRoutingTable
    \/ FindRoutingTableByName
    \/ ListVpnGateways
    \/ ListVolumes
    \/ ListVolumeProfiles
    \/ GetVolume
    \/ ListShares
    \/ GetShare
    \/ ListShareProfiles
    \/ ListSnapshots
    \/ GetSnapshot
    \/ UnknownTool
    \/ MissingRegion
    \/ Deliver

Spec == Init /\ [][Next]_vars

\* ------------------------------------------- the utility functions, called
\* directly.  analyze_security_rule_risk and analyze_backup_policy_health are
\* module functions outside the server: a caller applies one to an argument
\* and gets its outcome.  last_call holds that call until the caller has
\* taken the outcome; no manager exists.
Applied(name) == last_call # Idle /\ last_call.name = name /\ last_call.handler = "utility"

Apply(name, arguments, out) ==
    /\ last_call' = [name |-> name, arguments |-> arguments, handler |-> "utility",
                     out |-> out]
    /\ UNCHANGED <<env_api_key, vpc_manager, storage_manager, handed, ctor_calls, pager,
                   tasks, earlier>>

AnalyzeSecurityRuleRisk ==
    /\ last_call = Idle
    /\ \E rule \in RiskRules :
           Apply("analyze_security_rule_risk", [rule |-> rule],
                 Return(analyze_security_rule_risk(rule)))

AnalyzeBackupPolicyHealth ==
    /\ last_call = Idle
    /\ \E policy \in HealthPolicies, jobs \in HealthJobLists :
           Apply("analyze_backup_policy_health", [policy |-> policy, jobs |-> jobs],
                 analyze_backup_policy_health(policy, jobs))

UtilInit ==
    /\ env_api_key = None
    /\ vpc_manager = NoneObject
    /\ storage_manager = NoneObject
    /\ last_call = Idle
    /\ handed = {}
    /\ ctor_calls = [k \in Owners \X Regions |-> 0]
    /\ pager = NoPager
    /\ tasks = NoTasks
    /\ earlier = NotKept

UtilNext ==
    \/ AnalyzeSecurityRuleRisk
    \/ AnalyzeBackupPolicyHealth
    \/ Deliver

UtilSpec == UtilInit /\ [][UtilNext]_vars

\* --------------------------------------------- reading a collection by pages
\* Records per page of the service, and the most pages a collection has.
PageSize == 1
MaxPages == 4

\* The cursor of the page that starts at position i, and back.
Token(i) == ToString(i)
PositionOf(start) ==
    IF start = None THEN 1
    ELSE CHOOSE i \in 1..(PageSize * MaxPages + 1) : Token(i) = start
\* The service's answer to a list call with `start`: the page of the
\* collection from the cursor on and, when records remain after it, the
\* cursor of the next page under `next`.
ServicePage(key, collection, start) ==
    LET from == PositionOf(start)
        to == IF from + PageSize - 1 < Len(collection) THEN from + PageSize - 1
              ELSE Len(collection)
    IN Ok([k \in {key} |-> SubSeq(collection, from, to)]
          @@ [limit |-> PageSize, total_count |-> Len(collection)]
          @@ (IF to < Len(collection)
              THEN [next |-> [href |-> <<"?start=", Token(to + 1)>>, start |-> Token(to + 1)]]
              ELSE EmptyDict))

\* The list tools that take `start`, the key of their items and a record
\* of the collection each one lists.
PagedTools ==
    {[tool |-> "list_routing_tables", key |-> "routing_tables",
      record |-> [id |-> "r", name |-> <<"a">>]],
     [tool |-> "list_volumes", key |-> "volumes",
      record |-> CHOOSE v \in RawVolumes : v.id = "r-1"],
     [tool |-> "list_snapshots", key |-> "snapshots",
      record |-> CHOOSE v \in RawSnapshots : v.id = "r-1"],
     [tool |-> "list_shares", key |-> "shares",
      record |-> CHOOSE v \in RawShares : v.id = "r-1"],
     [tool |-> "list_backup_policies", key |-> "backup_policies",
      record |-> CHOOSE v \in RawPolicies : v.id = "bp-1"]}
\* A caller about to read a collection of n records from its first page.
Pagers ==
    {[tool |-> t.tool, key |-> t.key, region |-> region,
      collection |-> [i \in 1..n |-> [t.record EXCEPT !.id = Token(i)]],
      seen |-> {}, start |-> None, finished |-> FALSE] :
        t \in PagedTools, region \in Regions, n \in 0..(PageSize * MaxPages)}

\* The paging caller invokes the list tool with its cursor as `start`.
FetchPage ==
    /\ last_call = Idle
    /\ pager # NoPager
    /\ ~pager.finished
    /\ LET resp == ServicePage(pager.key, pager.collection, pager.start)
           args == [NoFilters EXCEPT !.start = pager.start]
           owner == IF pager.tool \in {"list_routing_tables", "list_backup_policies"}
                    THEN "vpc" ELSE "storage"
           self == ManagerAtCall(owner)
       IN call_tool(pager.tool, [region |-> pager.region, start |-> pager.start],
                    <<resp>>, owner,
                    CASE pager.tool = "list_routing_tables" ->
                             list_routing_tables(self, pager.region, "vpc-1", pager.start,
                                                 None, None, NoName, resp)
                      [] pager.tool = "list_volumes" ->
                             list_volumes(self, pager.region, args, resp)
                      [] pager.tool = "list_snapshots" ->
                             list_snapshots(self, pager.region, args, resp)
                      [] pager.tool = "list_shares" ->
                             list_shares(self, pager.region, args, resp)
                      [] pager.tool = "list_backup_policies" ->
                             list_backup_policies(self, pager.region, None, None, None,
                                                  pager.start, None, resp))

PagingInit ==
    /\ env_api_key = "api-key"
    /\ vpc_manager = NoneObject
    /\ storage_manager = NoneObject
    /\ last_call = Idle
    /\ handed = {}
    /\ ctor_calls = [k \in Owners \X Regions |-> 0]
    /\ pager \in Pagers
    /\ tasks = NoTasks
    /\ earlier = NotKept

PagingNext ==
    \/ FetchPage
    \/ Deliver

PagingSpec == PagingInit /\ [][PagingNext]_vars

\* ------------------------------------- concurrent invocations on one manager
\* The invocations gathered on the one VPCManager.
Tasks == {"t1", "t2"}

\* The service during the gathered invocations: it answers every call of
\* one kind for one region alike.
VpcsAnswers == {Ok([vpcs |-> <<RawVpc("vpc-1")>>])} \cup RemoteFailures
Services ==
    {[regions |-> rr, vpcs |-> vv] : rr \in RegionsResponses, vv \in [Regions -> VpcsAnswers]}

\* The frame of list_vpcs(region) before its first statement.
NotDone == [kind |-> "pending"]
Frame(region) ==
    [region |-> region, pc |-> "list_vpcs", regions_to_check |-> <<>>, i |-> 1,
     target |-> None, back |-> None, service |-> NoneObject, response |-> NotCalled,
     all_vpcs |-> <<>>, out |-> NotDone]
\* The frame after `return` or an exception that leaves list_vpcs.
Finished(frame, out) == [Frame(frame.region) EXCEPT !.pc = "done", !.out = out]

\* The region whose endpoint a client calls (set_service_url).
EndpointOf(service) == service.service_url[2]

\* `return self.vpc_clients[region]` reading an entry of another region.
CacheReadAnyEntry(self, region) ==
    self.vpc_clients[CHOOSE r \in DOMAIN self.vpc_clients : r # region \/ DOMAIN self.vpc_clients = {region}]
\* `return self.vpc_clients[region]` of _get_vpc_client.
cache_read(self, region) == self.vpc_clients[region]

\* One statement of the invocation t: its frame and the manager after it.
Step(t, frame, self) ==
    /\ tasks' = [tasks EXCEPT !.frames[t] = frame]
    /\ vpc_manager' = self
At(t, pc) == t \in DOMAIN tasks.frames /\ tasks.frames[t].pc = pc
\* `service = self._get_vpc_client(region)` begins: the frame goes to the
\* cache test and comes back at `back`.
GetClient(frame, region, back) ==
    [frame EXCEPT !.pc = "cache_test", !.target = region, !.back = back]

\* list_vpcs: `if region:` ... `if not self.regions: await self.list_regions()`.
EnterListVpcs ==
    \E t \in Tasks :
        /\ At(t, "list_vpcs")
        /\ LET frame == tasks.frames[t]
           IN Step(t,
                   IF Truthy(frame.region)
                   THEN [frame EXCEPT !.regions_to_check = <<frame.region>>, !.pc = "for"]
                   ELSE IF vpc_manager.regions = <<>>
                   THEN GetClient(frame, "us-south", "list_regions")
                   ELSE [frame EXCEPT !.pc = "regions_read"],
                   vpc_manager)
        /\ UNCHANGED <<env_api_key, storage_manager, last_call, handed, ctor_calls, pager, earlier>>

\* _get_vpc_client: `if region not in self.vpc_clients:`
CacheTest ==
    \E t \in Tasks :
        /\ At(t, "cache_test")
        /\ LET frame == tasks.frames[t]
           IN Step(t,
                   [frame EXCEPT !.pc = IF frame.target \notin DOMAIN vpc_manager.vpc_clients
                                        THEN "cache_store" ELSE "cache_read"],
                   vpc_manager)
        /\ UNCHANGED <<env_api_key, storage_manager, last_call, handed, ctor_calls, pager, earlier>>

\* _get_vpc_client: a client is constructed, its endpoint set, and it is
\* stored under the region.
CacheStore ==
    \E t \in Tasks :
        /\ At(t, "cache_store")
        /\ LET frame == tasks.frames[t]
               nth == ctor_calls[<<"vpc", frame.target>>] + 1
               service == VpcV1("vpc", vpc_manager.authenticator, frame.target, nth)
           IN /\ Step(t, [frame EXCEPT !.pc = "cache_read"],
                      [vpc_manager EXCEPT !.vpc_clients = Put(@, frame.target, service)])
              /\ ctor_calls' = [ctor_calls EXCEPT ![<<"vpc", frame.target>>] = nth]
        /\ UNCHANGED <<env_api_key, storage_manager, last_call, handed, pager, earlier>>

\* _get_vpc_client: `return self.vpc_clients[region]`
CacheRead ==
    \E t \in Tasks :
        /\ At(t, "cache_read")
        /\ LET frame == tasks.frames[t]
               service == cache_read(vpc_manager, frame.target)
           IN /\ Step(t, [frame EXCEPT !.pc = frame.back, !.service = service,
                                       !.back = None],
                      vpc_manager)
              /\ handed' = handed \cup {[region |-> frame.target, client |-> service]}
        /\ UNCHANGED <<env_api_key, storage_manager, last_call, ctor_calls, pager, earlier>>

\* list_regions: `response = service.list_regions().get_result()`
RegionsCall ==
    \E t \in Tasks :
        /\ At(t, "list_regions")
        /\ LET frame == tasks.frames[t]
               resp == tasks.service.regions
           IN Step(t,
                   IF resp.kind = "raise" THEN Finished(frame, Raise(resp.exc))
                   ELSE [frame EXCEPT !.pc = "regions_store", !.response = resp.body],
                   vpc_manager)
        /\ UNCHANGED <<env_api_key, storage_manager, last_call, handed, ctor_calls, pager, earlier>>

\* list_regions: `self.regions = [region['name'] for region in response['regions']]`
RegionsStore ==
    \E t \in Tasks :
        /\ At(t, "regions_store")
        /\ LET frame == tasks.frames[t]
           IN IF ~Has(frame.response, "regions")
              THEN Step(t, Finished(frame, Raise(KeyError("regions"))), vpc_manager)
              ELSE Step(t, [frame EXCEPT !.pc = "regions_read", !.response = NotCalled,
                                         !.service = NoneObject, !.target = None],
                        [vpc_manager EXCEPT
                            !.regions = Map(frame.response.regions,
                                            LAMBDA region: region.name)])
        /\ UNCHANGED <<env_api_key, storage_manager, last_call, handed, ctor_calls, pager, earlier>>

\* list_vpcs: `regions_to_check = self.regions`
RegionsRead ==
    \E t \in Tasks :
        /\ At(t, "regions_read")
        /\ Step(t, [tasks.frames[t] EXCEPT !.regions_to_check = vpc_manager.regions,
                                           !.pc = "for"],
                vpc_manager)
        /\ UNCHANGED <<env_api_key, storage_manager, last_call, handed, ctor_calls, pager, earlier>>

\* list_vpcs: `for region_name in regions_to_check:` and, after the last
\* region, the return.
ForRegion ==
    \E t \in Tasks :
        /\ At(t, "for")
        /\ LET frame == tasks.frames[t]
           IN Step(t,
                   IF frame.i > Len(frame.regions_to_check)
                   THEN Finished(frame,
                                 Return([vpcs |-> frame.all_vpcs,
                                         count |-> Len(frame.all_vpcs),
                                         regions_checked |-> frame.regions_to_check]))
                   ELSE GetClient(frame, frame.regions_to_check[frame.i], "list_vpcs_call"),
                   vpc_manager)
        /\ UNCHANGED <<env_api_key, storage_manager, last_call, handed, ctor_calls, pager, earlier>>

\* list_vpcs: `response = service.list_vpcs().get_result()`, the stamping of
\* its VPCs and `except ApiException`.  The call goes to the endpoint of the
\* client the cache handed out.
VpcsCall ==
    \E t \in Tasks :
        /\ At(t, "list_vpcs_call")
        /\ LET frame == tasks.frames[t]
               region_name == frame.regions_to_check[frame.i]
               resp == tasks.service.vpcs[EndpointOf(frame.service)]
               next == [frame EXCEPT !.pc = "for", !.i = @ + 1, !.service = NoneObject,
                                     !.target = None]
           IN Step(t,
                   IF resp.kind = "raise"
                   THEN (IF IsInstance(resp.exc, "ApiException") THEN next
                         ELSE Finished(frame, Raise(resp.exc)))
                   ELSE IF ~Has(resp.body, "vpcs")
                   THEN Finished(frame, Raise(KeyError("vpcs")))
                   ELSE [next EXCEPT !.all_vpcs =
                            @ \o Map(resp.body.vpcs,
                                     LAMBDA vpc: Put(vpc, "region", region_name))],
                   vpc_manager)
        /\ UNCHANGED <<env_api_key, storage_manager, last_call, handed, ctor_calls, pager, earlier>>

\* The managers the invocations may start on: a new one, and the one that
\* list_regions has run on (as in test_concurrent_region_listing).
StartingManagers(service) ==
    LET new == VPCManager([apikey |-> "api-key"])
    IN {Done(new, NotDone, <<>>), list_regions(new, service.regions)}

ConcInit ==
    /\ env_api_key = "api-key"
    /\ earlier = NotKept
    /\ storage_manager = NoneObject
    /\ last_call = Idle
    /\ pager = NoPager
    /\ \E service \in Services :
       \E start \in StartingManagers(service) :
       \E regions \in [Tasks -> Regions \cup {None}] :
           /\ vpc_manager = start.self
           /\ tasks = [service |-> service, manager |-> start.self,
                       frames |-> [t \in Tasks |-> Frame(regions[t])]]
           /\ handed = {[region |-> start.gets[i].region, client |-> start.gets[i].client] :
                            i \in 1..Len(start.gets)}
           /\ ctor_calls = [k \in Owners \X Regions |->
                               IF k[1] = "vpc" /\ k[2] \in DOMAIN start.self.vpc_clients
                               THEN 1 ELSE 0]

ConcNext ==
    \/ EnterListVpcs
    \/ CacheTest
    \/ CacheStore
    \/ CacheRead
    \/ RegionsCall
    \/ RegionsStore
    \/ RegionsRead
    \/ ForRegion
    \/ VpcsCall

ConcSpec == ConcInit /\ [][ConcNext]_vars

\* ------------------------------------------ calls one after another, compared
\* The answers of the service to a region-list call and to a VPC-list call.
HistoryRegionsAnswers ==
    {Ok([regions |-> <<[name |-> r]>>]) : r \in Regions}
        \cup {Ok([regions |-> <<>>]), Ok(EmptyDict), Fail(ApiException("Not Found"))}
HistoryVpcsAnswers == {Ok([vpcs |-> <<RawVpc("vpc-1")>>])} \cup RemoteFailures

HistoryListRegions ==
    /\ last_call = Idle
    /\ \E resp \in HistoryRegionsAnswers :
           call_tool("list_regions", EmptyDict, <<resp>>, "vpc",
                     list_regions(ManagerAtCall("vpc"), resp))

HistoryListVpcs ==
    /\ last_call = Idle
    /\ \E region \in Regions \cup {None} :
       \E regions_resp \in (IF FetchesRegions(ManagerAtCall("vpc"), region)
                            THEN HistoryRegionsAnswers ELSE {NotCalled}) :
       \E resps \in [1..Len(RegionsToCheck(ManagerAtCall("vpc"), region, regions_resp))
                       -> HistoryVpcsAnswers] :
           call_tool("list_vpcs", [region |-> region],
                     [regions |-> regions_resp, vpcs |-> resps], "vpc",
                     list_vpcs(ManagerAtCall("vpc"), region, regions_resp, resps))

HistoryGetVpc ==
    /\ last_call = Idle
    /\ \E region \in Regions, resp \in {Ok(RawVpc("vpc-1")), Fail(ApiException("Not Found"))} :
           call_tool("get_vpc", [vpc_id |-> "vpc-1", region |-> region], <<resp>>, "vpc",
                     get_vpc(ManagerAtCall("vpc"), "vpc-1", region, resp))

HistoryListVolumes ==
    /\ last_call = Idle
    /\ \E region \in Regions, resp \in {Ok([volumes |-> <<>>]), Fail(ApiException("Not Found"))} :
           call_tool("list_volumes", [region |-> region], <<resp>>, "storage",
                     list_volumes(ManagerAtCall("storage"), region, NoFilters, resp))

\* The call just answered is kept for comparison with a later one.
KeepCall ==
    /\ last_call # Idle
    /\ earlier.on
    /\ earlier.kept # earlier.last
    /\ earlier' = [earlier EXCEPT !.kept = earlier.last]
    /\ UNCHANGED <<env_api_key, vpc_manager, storage_manager, last_call, handed,
                   ctor_calls, pager, tasks>>

HistoryInit ==
    /\ env_api_key = "api-key"
    /\ vpc_manager = NoneObject
    /\ storage_manager = NoneObject
    /\ last_call = Idle
    /\ handed = {}
    /\ ctor_calls = [k \in Owners \X Regions |-> 0]
    /\ pager = NoPager
    /\ tasks = NoTasks
    /\ earlier = [on |-> TRUE, kept |-> NoCall, last |-> NoCall]

HistoryNext ==
    \/ HistoryListRegions
    \/ HistoryListVpcs
    \/ HistoryGetVpc
    \/ HistoryListVolumes
    \/ KeepCall
    \/ Deliver

HistorySpec == HistoryInit /\ [][HistoryNext]_vars

\* ---------------------------------- the parameters the list functions send
\* `limit` when it is not None, among the kwargs of a remote call.
LimitGiven(limit) == IF limit # NoneNumber THEN [limit |-> limit] ELSE EmptyDict
\* `if limit: params['limit'] = limit`
LimitTruthy(limit) ==
    IF limit # NoneNumber /\ limit # 0 THEN [limit |-> limit] ELSE EmptyDict
\* `if start: params['start'] = start`, for any string parameter
GivenTruthy(key, value) ==
    IF Truthy(value) THEN [k \in {key} |-> value] ELSE EmptyDict

\* The kwargs of service.list_vpc_routing_tables(**params).
list_routing_tables_params(a) ==
    WithoutNone([vpc_id |-> a.vpc_id, start |-> a.start, is_default |-> a.is_default])
        @@ LimitGiven(a.limit)
\* The kwargs of service.list_volumes(**params).
list_volumes_params(a) ==
    WithoutNone(("start" :> a.start) @@ ("attachment_state" :> a.attachment_state)
                @@ ("encryption" :> a.encryption) @@ ("name" :> a.name)
                @@ ("operating_system.family" :> a.operating_system_family)
                @@ ("operating_system.architecture" :> a.operating_system_architecture)
                @@ ("tag" :> a.tag) @@ ("zone.name" :> a.zone_name))
        @@ LimitGiven(a.limit)
\* The kwargs of service.list_shares(**params).
list_shares_params(a) ==
    WithoutNone(("start" :> a.start) @@ ("resource_group.id" :> a.resource_group_id)
                @@ ("name" :> a.name) @@ ("sort" :> a.sort)
                @@ ("replication_role" :> a.replication_role))
        @@ LimitGiven(a.limit)
\* list_snapshots building its params like list_backup_policies passes its
\* arguments: every one of them, None included.
ListSnapshotsParamsKeepNone(a) ==
    ("start" :> a.start) @@ ("name" :> a.name)
        @@ ("source_volume.id" :> a.source_volume_id)
        @@ ("resource_group.id" :> a.resource_group_id) @@ ("sort" :> a.sort)
        @@ LimitGiven(a.limit)
\* The kwargs of service.list_snapshots(**params).
list_snapshots_params(a) ==
    WithoutNone(("start" :> a.start) @@ ("name" :> a.name)
                @@ ("source_volume.id" :> a.source_volume_id)
                @@ ("resource_group.id" :> a.resource_group_id) @@ ("sort" :> a.sort))
        @@ LimitGiven(a.limit)
\* The kwargs of service.list_volume_profiles(**params).
list_volume_profiles_params(a) == GivenTruthy("start", a.start) @@ LimitTruthy(a.limit)
\* The kwargs of service.list_share_profiles(**params).
list_share_profiles_params(a) ==
    GivenTruthy("start", a.start) @@ LimitTruthy(a.limit) @@ GivenTruthy("sort", a.sort)
\* The keyword arguments of service.list_backup_policies(...).
list_backup_policies_kwargs(a) ==
    [start |-> a.start, limit |-> a.limit, resource_group_id |-> a.resource_group_id,
     name |-> a.name, tag |-> a.tag]
\* The keyword arguments of service.list_backup_policy_jobs(...).
list_backup_policy_jobs_kwargs(a) ==
    [backup_policy_id |-> a.backup_policy_id, status |-> a.status,
     backup_policy_plan_id |-> a.backup_policy_plan_id, start |-> a.start,
     limit |-> a.limit, sort |-> a.sort, source_id |-> a.source_id,
     target_snapshots_id |-> a.target_snapshots_id,
     target_snapshots_crn |-> a.target_snapshots_crn]
\* The keyword arguments of service.list_backup_policy_plans(...).
list_backup_policy_plans_kwargs(a) ==
    [backup_policy_id |-> a.backup_policy_id, name |-> a.name]

\* The arguments of a list function: each optional string left unset (None)
\* or given one of `given`, the limit unset or one of `limits`, the required
\* ones as `required` fixes them.
Supplied(optional, given, limits, required) ==
    {strings @@ [limit |-> l] @@ required :
        strings \in [optional -> {None} \cup given], l \in {NoneNumber} \cup limits}
Unlimited(optional, given, required) ==
    {strings @@ required : strings \in [optional -> {None} \cup given]}

\* A list function made its remote call with kwargs.
Request(name, arguments, kwargs) ==
    /\ last_call' = [name |-> name, arguments |-> arguments, handler |-> "request",
                     kwargs |-> kwargs]
    /\ UNCHANGED <<env_api_key, vpc_manager, storage_manager, handed, ctor_calls, pager,
                   tasks, earlier>>

RequestRoutingTables ==
    /\ last_call = Idle
    /\ \E a \in Supplied({"start"}, {"x"}, {0, 50}, [vpc_id |-> "vpc-1"]),
          is_default \in {None, "False", "True"} :
           Request("list_routing_tables", a @@ [is_default |-> is_default],
                   list_routing_tables_params(a @@ [is_default |-> is_default]))

RequestVolumes ==
    /\ last_call = Idle
    /\ \E a \in Supplied({"start", "attachment_state", "encryption", "name",
                          "operating_system_family", "operating_system_architecture",
                          "tag", "zone_name"}, {"x"}, {50}, EmptyDict) :
           Request("list_volumes", a, list_volumes_params(a))

RequestShares ==
    /\ last_call = Idle
    /\ \E a \in Supplied({"start", "resource_group_id", "name", "sort", "replication_role"},
                         {"", "x"}, {50}, EmptyDict) :
           Request("list_shares", a, list_shares_params(a))

RequestSnapshots ==
    /\ last_call = Idle
    /\ \E a \in Supplied({"start", "name", "source_volume_id", "resource_group_id", "sort"},
                         {"x"}, {0, 50}, EmptyDict) :
           Request("list_snapshots", a, list_snapshots_params(a))

RequestVolumeProfiles ==
    /\ last_call = Idle
    /\ \E a \in Supplied({"start"}, {"", "x"}, {0, 50}, EmptyDict) :
           Request("list_volume_profiles", a, list_volume_profiles_params(a))

RequestShareProfiles ==
    /\ last_call = Idle
    /\ \E a \in Supplied({"start", "sort"}, {"", "x"}, {0, 50}, EmptyDict) :
           Request("list_share_profiles", a, list_share_profiles_params(a))

RequestBackupPolicies ==
    /\ last_call = Idle
    /\ \E a \in Supplied({"start", "resource_group_id", "name", "tag"}, {"x"}, {50},
                         EmptyDict) :
           Request("list_backup_policies", a, list_backup_policies_kwargs(a))

RequestBackupPolicyJobs ==
    /\ last_call = Idle
    /\ \E a \in Supplied({"status", "backup_policy_plan_id", "start", "sort", "source_id",
                          "target_snapshots_id", "target_snapshots_crn"}, {"x"}, {50},
                         [backup_policy_id |-> "bp-1"]) :
           Request("list_backup_policy_jobs", a, list_backup_policy_jobs_kwargs(a))

RequestBackupPolicyPlans ==
    /\ last_call = Idle
    /\ \E a \in Unlimited({"name"}, {"", "x"}, [backup_policy_id |-> "bp-1"]) :
           Request("list_backup_policy_plans", a, list_backup_policy_plans_kwargs(a))

RequestInit ==
    /\ env_api_key = "api-key"
    /\ vpc_manager = NoneObject
    /\ storage_manager = NoneObject
    /\ last_call = Idle
    /\ handed = {}
    /\ ctor_calls = [k \in Owners \X Regions |-> 0]
    /\ pager = NoPager
    /\ tasks = NoTasks
    /\ earlier = NotKept

RequestNext ==
    \/ RequestRoutingTables
    \/ RequestVolumes
    \/ RequestShares
    \/ RequestSnapshots
    \/ RequestVolumeProfiles
    \/ RequestShareProfiles
    \/ RequestBackupPolicies
    \/ RequestBackupPolicyJobs
    \/ RequestBackupPolicyPlans
    \/ Deliver

RequestSpec == RequestInit /\ [][RequestNext]_vars

\* -------------------------------------------- records that lack some field
\* A record without the field f.
Without(record, f) == [k \in DOMAIN record \ {f} |-> record[k]]
\* A record and every record that lacks one of its fields.
PartialsOf(record) == {record} \cup {Without(record, f) : f \in DOMAIN record}
\* The longest response of the partial-record listings.
MaxPartial == 2
\* An instance and a subnet as the service returns them in full.
FullInstance == RawRecord("r-1", "vpc-1")
FullSubnet ==
    [id |-> "r-1", name |-> "r-1", vpc |-> [id |-> "vpc-1"],
     available_ipv4_address_count |-> 5, total_ipv4_address_count |-> 8]

PartialListInstances ==
    /\ last_call = Idle
    /\ \E region \in Regions, vpc_id \in VpcFilters,
          l \in SeqUpTo(PartialsOf(FullInstance), MaxPartial) :
           call_tool("list_instances", [region |-> region, vpc_id |-> vpc_id],
                     <<Ok([instances |-> l])>>, "vpc",
                     list_instances(ManagerAtCall("vpc"), region, vpc_id,
                                    Ok([instances |-> l])))

PartialListSubnets ==
    /\ last_call = Idle
    /\ \E region \in Regions, vpc_id \in VpcFilters,
          l \in SeqUpTo(PartialsOf(FullSubnet), MaxPartial) :
           call_tool("list_subnets", [region |-> region, vpc_id |-> vpc_id],
                     <<Ok([subnets |-> l])>>, "vpc",
                     list_subnets(ManagerAtCall("vpc"), region, vpc_id, Ok([subnets |-> l])))

PartialListVolumes ==
    /\ last_call = Idle
    /\ \E region \in Regions,
          l \in SeqUpTo(PartialsOf(CHOOSE v \in RawVolumes : v.id = "r-1"), MaxPartial) :
           call_tool("list_volumes", [region |-> region], <<Ok([volumes |-> l])>>, "storage",
                     list_volumes(ManagerAtCall("storage"), region, NoFilters,
                                  Ok([volumes |-> l])))

PartialListVolumeProfiles ==
    /\ last_call = Idle
    /\ \E region \in Regions,
          l \in SeqUpTo(PartialsOf(CHOOSE v \in RawProfiles : Has(v, "href")), MaxPartial) :
           call_tool("list_volume_profiles", [region |-> region], <<Ok([profiles |-> l])>>,
                     "storage",
                     list_volume_profiles(ManagerAtCall("storage"), region, None, None,
                                          Ok([profiles |-> l])))

PartialNext ==
    \/ PartialListInstances
    \/ PartialListSubnets
    \/ PartialListVolumes
    \/ PartialListVolumeProfiles
    \/ Deliver

PartialSpec == RequestInit /\ [][PartialNext]_vars

\* ------------------------------------------------- StorageManager: analyses
\* sum(ns)
RECURSIVE Sum(_)
Sum(ns) == IF ns = <<>> THEN 0 ELSE Head(ns) + Sum(Tail(ns))
\* round(part / whole, 2), held as hundredths; no quotient of the lists
\* modelled lies halfway between two hundredths.
RoundedHundredths(part, whole) == (2 * 100 * part + whole) \div (2 * whole)
\* datetime.now().isoformat()
import_datetime_and_return_now_iso == Timestamp

\* A grouping that would keep only the last volume of each group.
VolumeGroupsOverwriting(volumes, key) ==
    LET names == {volumes[i][key].name : i \in 1..Len(volumes)}
        Last(n) == volumes[CHOOSE i \in 1..Len(volumes) :
                              /\ volumes[i][key].name = n
                              /\ \A j \in (i + 1)..Len(volumes) : volumes[j][key].name # n]
    IN [n \in names |->
           [count |-> 1, total_capacity_gb |-> Last(n).capacity,
            total_iops |-> Last(n).iops]]

\* The loops of analyze_storage_usage that group the volumes by the name
\* under `key` (profile or zone): count, capacity and IOPS of each group.
VolumeGroups(volumes, key) ==
    LET names == {volumes[i][key].name : i \in 1..Len(volumes)}
        Of(n) == Filter(volumes, LAMBDA volume: volume[key].name = n)
    IN [n \in names |->
           [count |-> Len(Of(n)),
            total_capacity_gb |-> Sum(Map(Of(n), LAMBDA volume: volume.capacity)),
            total_iops |-> Sum(Map(Of(n), LAMBDA volume: volume.iops))]]

\* StorageManager.analyze_storage_usage: the volumes of list_volumes(region)
\* counted and grouped; {error, region} when the listing reports an error.
\* by_zone has no total_iops; attachment_percentage is held in hundredths.
analyze_storage_usage(self, region, resp) ==
    LET r == list_volumes(self, region, NoFilters, resp)
        volumes_data == r.out.value
        volumes == volumes_data.volumes
        total_volumes == Len(volumes)
        attached_volumes ==
            Len(Filter(volumes, LAMBDA v: Get(v, "attachment_state", None) = "attached"))
        profiles == VolumeGroups(volumes, "profile")
        zones == VolumeGroups(volumes, "zone")
    IN Done(r.self,
            IF Raised(r.out)
            THEN Return([error |-> Str(r.out.exc), region |-> region])
            ELSE IF Has(volumes_data, "error")
            THEN Return([error |-> volumes_data.error, region |-> region])
            ELSE Return(
                [region |-> region,
                 timestamp |-> import_datetime_and_return_now_iso,
                 summary |->
                     [total_volumes |-> total_volumes,
                      total_capacity_gb |-> Sum(Map(volumes, LAMBDA v: v.capacity)),
                      attached_volumes |-> attached_volumes,
                      unattached_volumes |-> total_volumes - attached_volumes,
                      attachment_percentage |->
                          IF total_volumes > 0
                          THEN RoundedHundredths(100 * attached_volumes, total_volumes)
                          ELSE 0],
                 by_profile |-> profiles,
                 by_zone |-> [n \in DOMAIN zones |->
                                 [count |-> zones[n].count,
                                  total_capacity_gb |-> zones[n].total_capacity_gb]]]),
            r.gets)

\* The loops of analyze_snapshot_usage that group the snapshots by Key: the
\* count and size of each group and, when `label` is given, the name the
\* first snapshot of the group carries, stored under `label`.
SnapshotGroups(snapshots, Key(_), label, Name(_)) ==
    LET keys == {Key(snapshots[i]) : i \in 1..Len(snapshots)}
        Of(k) == Filter(snapshots, LAMBDA snapshot: Key(snapshot) = k)
        Totals(k) == [count |-> Len(Of(k)),
                      total_size_gb |-> Sum(Map(Of(k), LAMBDA snapshot: snapshot.size))]
    IN [k \in keys |->
           IF label = None THEN Totals(k)
           ELSE Put(Totals(k), label, Name(Of(k)[1]))]

\* StorageManager.analyze_snapshot_usage: the snapshots of
\* list_snapshots(region) counted and grouped; average_size_gb is held in
\* hundredths.
analyze_snapshot_usage(self, region, resp) ==
    LET r == list_snapshots(self, region, NoFilters, resp)
        snapshots_data == r.out.value
        snapshots == snapshots_data.snapshots
        total_snapshots == Len(snapshots)
        total_size_gb == Sum(Map(snapshots, LAMBDA snapshot: snapshot.size))
        Source(snapshot) == Get(snapshot, "source_volume", EmptyDict)
        Group(snapshot) == Get(snapshot, "resource_group", EmptyDict)
    IN Done(r.self,
            IF Raised(r.out)
            THEN Return([error |-> Str(r.out.exc), region |-> region])
            ELSE IF Has(snapshots_data, "error")
            THEN Return([error |-> snapshots_data.error, region |-> region])
            ELSE Return(
                [region |-> region,
                 timestamp |-> import_datetime_and_return_now_iso,
                 summary |->
                     [total_snapshots |-> total_snapshots,
                      total_size_gb |-> total_size_gb,
                      bootable_snapshots |->
                          Len(Filter(snapshots,
                                     LAMBDA snapshot: Get(snapshot, "bootable", FALSE))),
                      backup_policy_snapshots |->
                          Len(Filter(snapshots,
                                     LAMBDA snapshot: Has(snapshot, "backup_policy_plan"))),
                      average_size_gb |->
                          IF total_snapshots > 0
                          THEN RoundedHundredths(total_size_gb, total_snapshots)
                          ELSE 0],
                 by_status |->
                     SnapshotGroups(snapshots,
                                    LAMBDA snapshot: Get(snapshot, "status", "unknown"),
                                    None, LAMBDA snapshot: None),
                 by_source_volume |->
                     SnapshotGroups(snapshots,
                                    LAMBDA snapshot: Get(Source(snapshot), "id", "unknown"),
                                    "source_name",
                                    LAMBDA snapshot: Get(Source(snapshot), "name", "unknown")),
                 by_resource_group |->
                     SnapshotGroups(snapshots,
                                    LAMBDA snapshot: Get(Group(snapshot), "id", "unknown"),
                                    "name",
                                    LAMBDA snapshot: Get(Group(snapshot), "name", "unknown"))]),
            r.gets)

\* The longest listing analysed.
MaxVolumes == 3
\* Volumes of two profiles and two zones, attached and not; some lack
\* fields, the last lacks all but its id.
UsageVolumes ==
    {[id |-> "r-1", capacity |-> 100, iops |-> 3000, profile |-> [name |-> "general-purpose"],
      zone |-> [name |-> "zone-1"], attachment_state |-> "attached"],
     [id |-> "r-2", capacity |-> 50, iops |-> 1000, profile |-> [name |-> "custom"],
      zone |-> [name |-> "zone-2"], attachment_state |-> "unattached"],
     [id |-> "r-3", capacity |-> 10, profile |-> [name |-> "general-purpose"],
      zone |-> [name |-> "zone-2"], attachment_state |-> "attached"],
     [id |-> "r-4", capacity |-> 20, iops |-> 1000, profile |-> [name |-> "custom"],
      zone |-> [name |-> "zone-1"]],
     [id |-> "r-5"]}
\* Snapshots of two source volumes and two states; some lack fields.
UsageSnapshots ==
    {[id |-> "s-1", status |-> "available", size |-> 10, bootable |-> TRUE,
      source_volume |-> [id |-> "r-1", name |-> "r-1"],
      resource_group |-> [id |-> "rg-1", name |-> "default"]],
     [id |-> "s-2", size |-> 5],
     [id |-> "s-3", status |-> "pending", size |-> 7, source_volume |-> [id |-> "r-1"],
      backup_policy_plan |-> [id |-> "plan-1"]],
     [id |-> "s-4", status |-> "available", size |-> 10,
      source_volume |-> [id |-> "r-2", name |-> "r-2"]]}

AnalyzeStorageUsage ==
    /\ last_call = Idle
    /\ \E region \in Regions,
          resp \in ListResponses("volumes", SeqUpTo(UsageVolumes, MaxVolumes)) :
           call_tool("analyze_storage_usage", [region |-> region], <<resp>>, "storage",
                     analyze_storage_usage(ManagerAtCall("storage"), region, resp))

AnalyzeSnapshotUsage ==
    /\ last_call = Idle
    /\ \E region \in Regions,
          resp \in ListResponses("snapshots", SeqUpTo(UsageSnapshots, MaxVolumes)) :
           call_tool("analyze_snapshot_usage", [region |-> region], <<resp>>, "storage",
                     analyze_snapshot_usage(ManagerAtCall("storage"), region, resp))

UsageNext ==
    \/ AnalyzeStorageUsage
    \/ AnalyzeSnapshotUsage
    \/ Deliver

UsageSpec == RequestInit /\ [][UsageNext]_vars

\* -------------------------------------- VPCManager: analyze_backup_policies
\* An inner except clause narrowed to ApiException.
PolicyJobsExceptApiOnly(exc) == IsInstance(exc, "ApiException")

\* `except Exception` around the job check of one policy in
\* analyze_backup_policies: whether it catches exc.
policy_jobs_except(exc) == IsInstance(exc, "Exception")

\* The body of the loop of analyze_backup_policies for one policy whose id
\* is present: the summary counters it raises and the policy_health entry,
\* given the outcome q of list_backup_policy_jobs for the policy.
PolicyHealthEntry(policy, q) ==
    LET stable == Get(policy, "lifecycle_state", None) = "stable"
        base == [policy_id |-> policy.id,
                 policy_name |-> Get(policy, "name", "Unnamed"),
                 status |-> Get(policy, "lifecycle_state", "unknown"),
                 issues |-> IF stable THEN <<>>
                            ELSE << <<"Policy is not in stable state">> >>]
        recent_jobs == q.value.jobs
        failed_jobs == Filter(recent_jobs, LAMBDA j: Get(j, "status", None) = "failed")
        With(issue) == [base EXCEPT !.issues = @ \o <<issue>>]
        Dated(entry) ==
            Put(Put(entry, "last_job_status", Get(recent_jobs[1], "status", None)),
                "last_job_date", Get(recent_jobs[1], "created_at", None))
    IN IF Raised(q)
       THEN [stable |-> stable, failed |-> 0, without |-> 0,
             entry |-> With(<<"Error retrieving jobs: ">> \o Str(q.exc))]
       ELSE IF recent_jobs = <<>>
       THEN [stable |-> stable, failed |-> 0, without |-> 1,
             entry |-> With(<<"No recent backup jobs found">>)]
       ELSE IF failed_jobs # <<>>
       THEN [stable |-> stable, failed |-> 1, without |-> 0,
             entry |-> Dated(With(<<Len(failed_jobs), " recent failed jobs">>))]
       ELSE [stable |-> stable, failed |-> 0, without |-> 0, entry |-> Dated(base)]

\* The loop of analyze_backup_policies from the i-th policy on.
\* job_resps[i] answers the job listing of the i-th policy.  policy['id']
\* is read outside the inner try block; an exception the inner except
\* clause does not catch leaves the function.
RECURSIVE analyze_backup_policies_loop(_, _, _, _, _, _, _)
analyze_backup_policies_loop(self, policies, region, job_resps, i, analysis, gets) ==
    IF i > Len(policies) THEN Done(self, Return(analysis), gets)
    ELSE IF ~Has(policies[i], "id") THEN Done(self, Raise(KeyError("id")), gets)
    ELSE LET q == list_backup_policy_jobs(self, policies[i].id, region, 10,
                                          "-created_at", job_resps[i])
             step == PolicyHealthEntry(policies[i], q.out)
             summary == analysis.summary
         IN IF Raised(q.out) /\ ~policy_jobs_except(q.out.exc)
            THEN Done(q.self, q.out, gets \o q.gets)
            ELSE analyze_backup_policies_loop(q.self, policies, region, job_resps, i + 1,
                     [analysis EXCEPT
                         !.policy_health = @ \o <<step.entry>>,
                         !.summary =
                             [active_policies |->
                                  summary.active_policies + (IF step.stable THEN 1 ELSE 0),
                              inactive_policies |->
                                  summary.inactive_policies + (IF step.stable THEN 0 ELSE 1),
                              policies_with_failed_jobs |->
                                  summary.policies_with_failed_jobs + step.failed,
                              policies_without_recent_jobs |->
                                  summary.policies_without_recent_jobs + step.without]],
                     gets \o q.gets)

\* VPCManager.analyze_backup_policies: the outer except clause logs and
\* re-raises, so a failure of the policy listing leaves the function.
analyze_backup_policies(self, region, resource_group_id, resp, job_resps) ==
    LET r == list_backup_policies(self, region, resource_group_id, None, None, None,
                                  None, resp)
        policies == r.out.value.backup_policies
    IN IF Raised(r.out) THEN r
       ELSE analyze_backup_policies_loop(r.self, policies, region, job_resps, 1,
                [region |-> region, timestamp |-> Timestamp,
                 total_policies |-> Len(policies),
                 policy_health |-> <<>>,
                 summary |-> [active_policies |-> 0, inactive_policies |-> 0,
                              policies_with_failed_jobs |-> 0,
                              policies_without_recent_jobs |-> 0]],
                r.gets)

\* The longest policy listing analysed.
MaxPolicies == 2
\* The backup policies listed: stable, failed and without a name, and
\* without a lifecycle_state.
AnalysedPolicies ==
    RawPolicies \cup {[id |-> "bp-3", name |-> "weekly"]}
\* The answers to the job listing of one policy.
PolicyJobsAnswers ==
    {Ok([jobs |-> <<j>>]) : j \in RawJobs}
        \cup {Ok([jobs |-> <<[id |-> "job-1", status |-> "succeeded", created_at |-> "t0"],
                             [id |-> "job-2", status |-> "failed"]>>]),
              Ok([jobs |-> <<>>]), Ok(EmptyDict)}
        \cup RemoteFailures
\* The policies a response lists.
ListedPolicies(resp) ==
    IF resp.kind = "ok" THEN Get(resp.body, "backup_policies", <<>>) ELSE <<>>

AnalyzeBackupPolicies ==
    /\ last_call = Idle
    /\ \E region \in Regions,
          resp \in ListResponses("backup_policies", SeqUpTo(AnalysedPolicies, MaxPolicies)) :
       \E job_resps \in [1..Len(ListedPolicies(resp)) -> PolicyJobsAnswers] :
           call_tool("analyze_backup_policies", [region |-> region],
                     [policies |-> resp, jobs |-> job_resps], "vpc",
                     analyze_backup_policies(ManagerAtCall("vpc"), region, None, resp,
                                             job_resps))

BackupNext ==
    \/ AnalyzeBackupPolicies
    \/ Deliver

BackupSpec == RequestInit /\ [][BackupNext]_vars

\* ================================================================ properties
\* The properties below speak of the call just answered (last_call) and of
\* the two history variables.

\* The list functions with one remote call, and the key of their item list.
PluralOf(name) ==
    CASE name = "list_subnets" -> "subnets"
      [] name = "list_instances" -> "instances"
      [] name = "list_security_groups" -> "security_groups"
      [] name = "list_public_gateways" -> "public_gateways"
      [] name = "list_floating_ips" -> "floating_ips"
      [] name = "list_instance_profiles" -> "profiles"
      [] name = "list_security_group_rules" -> "rules"
      [] name = "list_routing_tables" -> "routing_tables"
      [] name = "list_volumes" -> "volumes"
      [] name = "list_shares" -> "shares"
      [] name = "list_snapshots" -> "snapshots"
      [] name = "list_volume_profiles" -> "profiles"
      [] name = "list_share_profiles" -> "profiles"
      [] name = "list_backup_policies" -> "backup_policies"
      [] name = "list_backup_policy_jobs" -> "jobs"
      [] name = "list_backup_policy_plans" -> "plans"
      [] name = "list_vpcs" -> "vpcs"

\* The list functions whose body is one try block ending in an error envelope.
EnvelopingLists ==
    {"list_routing_tables", "list_volumes", "list_shares", "list_snapshots",
     "list_volume_profiles", "list_share_profiles"}
\* The list functions, outside the backup-policy ones, without a try block.
RaisingLists ==
    {"list_subnets", "list_instances", "list_security_groups",
     "list_public_gateways", "list_floating_ips", "list_instance_profiles"}
BackupLists ==
    {"list_backup_policies", "list_backup_policy_jobs", "list_backup_policy_plans"}

\* {error: str(e), region, <plural>: [], count: 0}
ErrorEnvelope(name, e, region) ==
    [k \in {"error", "region", "count", PluralOf(name)} |->
        CASE k = "error" -> Str(e)
          [] k = "region" -> region
          [] k = "count" -> 0
          [] OTHER -> <<>>]

\* The one remote call of the method just run failed.
RemoteFailed == last_call.feed[1].kind = "raise"

\* ---------------------------------------------------------------------- C1
\* C1 as stated: every list function outside the backup-policy and VPN ones
\* answers a failed remote call with the error envelope
\* {error: str(e), region, <plural>: [], count: 0} and does not raise.
C1_EveryListReturnsEnvelope ==
    (RanOneOf(EnvelopingLists \cup RaisingLists) /\ RemoteFailed)
        => /\ Returned(last_call.out)
           /\ last_call.out.value =
                  ErrorEnvelope(last_call.name, last_call.feed[1].exc,
                                last_call.arguments.region)

\* C1 amended: list_routing_tables, list_volumes, list_shares, list_snapshots,
\* list_volume_profiles and list_share_profiles never raise, answer a failed
\* remote call with the error envelope, and every result of theirs that
\* carries `error` is an envelope with an empty list and count 0;
\* list_subnets, list_instances, list_security_groups, list_public_gateways,
\* list_floating_ips and list_instance_profiles raise the exception of the
\* remote call unchanged.
C1_EnvelopeOnlyWhereTryBlock ==
    /\ RanOneOf(EnvelopingLists)
           => /\ Returned(last_call.out)
              /\ RemoteFailed
                     => last_call.out.value =
                            ErrorEnvelope(last_call.name, last_call.feed[1].exc,
                                          last_call.arguments.region)
              /\ Has(last_call.out.value, "error")
                     => /\ DOMAIN last_call.out.value =
                               {"error", "region", "count", PluralOf(last_call.name)}
                        /\ last_call.out.value[PluralOf(last_call.name)] = <<>>
                        /\ last_call.out.value.count = 0
                        /\ last_call.out.value.region = last_call.arguments.region
    /\ (RanOneOf(RaisingLists) /\ RemoteFailed)
           => /\ Raised(last_call.out)
              /\ last_call.out.exc = last_call.feed[1].exc

\* A transport error of list_routing_tables came back as an envelope.
C1_Witness_Envelope ==
    /\ Ran("list_routing_tables")
    /\ last_call.feed[1] = Fail(ConnectionError("unreachable"))
    /\ Returned(last_call.out)
    /\ last_call.out.value.error = <<"unreachable">>

\* ---------------------------------------------------------------------- C2
\* The VPCs list_vpcs is to return according to C2: those of the regions
\* whose call succeeded, in the order of the regions, each stamped with its
\* region.
RECURSIVE VpcsOfSucceeding(_, _, _)
VpcsOfSucceeding(regions, resps, i) ==
    IF i > Len(regions) THEN <<>>
    ELSE (IF resps[i].kind = "ok" /\ Has(resps[i].body, "vpcs")
          THEN [k \in 1..Len(resps[i].body.vpcs) |->
                   Put(resps[i].body.vpcs[k], "region", regions[i])]
          ELSE <<>>) \o VpcsOfSucceeding(regions, resps, i + 1)

\* list_vpcs ran without a region argument on a region list it had or got.
ListVpcsAllRegions ==
    /\ Ran("list_vpcs")
    /\ last_call.arguments.region = None
    /\ \/ last_call.feed.regions = NotCalled
       \/ /\ last_call.feed.regions.kind = "ok"
          /\ Has(last_call.feed.regions.body, "regions")

\* The regions whose call did not answer a body with `vpcs`.
FailingRegions(resps) ==
    {i \in DOMAIN resps : resps[i].kind = "raise" \/ ~Has(resps[i].body, "vpcs")}
\* Those of them that failed with an ApiException.
ApiFailingRegions(resps) ==
    {i \in DOMAIN resps : resps[i].kind = "raise"
                            /\ IsInstance(resps[i].exc, "ApiException")}

\* C2 as stated: without a region argument no failing region makes
\* list_vpcs raise; it returns exactly the stamped VPCs of the regions that
\* succeeded, and count is their number.
C2_AnyFailureSkipped ==
    ListVpcsAllRegions
        => /\ Returned(last_call.out)
           /\ last_call.out.value.vpcs =
                  VpcsOfSucceeding(vpc_manager.regions, last_call.feed.vpcs, 1)
           /\ last_call.out.value.count = Len(last_call.out.value.vpcs)

\* C2 amended: when every failing region fails with an ApiException,
\* list_vpcs returns exactly the stamped VPCs of the other regions with
\* count their number; otherwise it raises the first failure that is not an
\* ApiException (the exception of the call, or the KeyError of a body
\* without `vpcs`).
C2_OnlyApiExceptionSkipped ==
    ListVpcsAllRegions
        => LET resps == last_call.feed.vpcs
               others == FailingRegions(resps) \ ApiFailingRegions(resps)
               first == CHOOSE i \in others : \A j \in others : i <= j
           IN IF others = {}
              THEN /\ Returned(last_call.out)
                   /\ last_call.out.value.vpcs =
                          VpcsOfSucceeding(vpc_manager.regions, resps, 1)
                   /\ last_call.out.value.count = Len(last_call.out.value.vpcs)
                   /\ last_call.out.value.regions_checked = vpc_manager.regions
              ELSE /\ Raised(last_call.out)
                   /\ last_call.out.exc =
                          IF resps[first].kind = "raise" THEN resps[first].exc
                          ELSE KeyError("vpcs")

\* The first of two regions failed with an ApiException and the VPCs of the
\* second came back.
C2_Witness_Skipped ==
    /\ ListVpcsAllRegions
    /\ Len(vpc_manager.regions) = 2
    /\ last_call.feed.vpcs[1] = Fail(ApiException("Not Found"))
    /\ last_call.feed.vpcs[2].kind = "ok"
    /\ Returned(last_call.out)
    /\ last_call.out.value.count > 0
    /\ last_call.out.value.vpcs[1].region = vpc_manager.regions[2]

\* ---------------------------------------------------------------------- C3
\* The cache of a manager, empty while the manager does not exist.
CacheOf(manager) == IF manager = NoneObject THEN EmptyDict ELSE manager.vpc_clients

\* C3 as stated: in the whole process no two different clients are handed
\* out for one region, and at most one client is constructed per region,
\* whichever manager asks.
C3_OneClientPerRegionInProcess ==
    /\ \A a, b \in handed : a.region = b.region => a.client = b.client
    /\ \A r \in Regions : ctor_calls[<<"vpc", r>>] + ctor_calls[<<"storage", r>>] <= 1

\* C3 amended: each manager (the VPC manager, which also serves routing and
\* backup, and the storage manager) hands out one client per region and
\* constructs at most one; the two managers do not share their caches, so
\* the process constructs up to two clients for a region.
C3_OneClientPerRegionPerManager ==
    /\ \A a, b \in handed :
           (a.region = b.region /\ a.client.owner = b.client.owner)
               => a.client = b.client
    /\ \A k \in Owners \X Regions : ctor_calls[k] <= 1
    /\ \A a \in handed :
           /\ ctor_calls[<<a.client.owner, a.region>>] = 1
           /\ a.client = Get(CacheOf(IF a.client.owner = "vpc" THEN vpc_manager
                                     ELSE storage_manager),
                             a.region, NoneObject)

\* Both managers were asked for the client of us-south, the VPC manager
\* more than once, and two clients exist for the region.
C3_Witness_TwoManagers ==
    /\ ctor_calls[<<"vpc", "us-south">>] = 1
    /\ ctor_calls[<<"storage", "us-south">>] = 1
    /\ Cardinality({a \in handed : a.region = "us-south"}) = 2
    /\ Ran("get_vpc_resources_summary")
    /\ last_call.arguments.region = "us-south"

\* ---------------------------------------------------------------------- C4
\* C4: in every call, a request _get_vpc_client(r) constructs a client
\* exactly when the manager holds none for r; the client constructed has
\* version '2025-04-08' and URL https://{r}.iaas.cloud.ibm.com/v1 and is
\* stored under r; a later request returns the stored client; and no step,
\* whatever the outcome of its remote calls, removes or replaces a stored
\* client.
C4_Step ==
    LET before(owner) == CacheOf(IF owner = "vpc" THEN vpc_manager
                                 ELSE storage_manager)
        after(owner) == CacheOf(IF owner = "vpc" THEN vpc_manager'
                                ELSE storage_manager')
        gets == IF last_call' = Idle THEN <<>> ELSE last_call'.gets
        asked(i) == {j \in 1..(i - 1) : gets[j].region = gets[i].region}
    IN /\ \A owner \in Owners : \A r \in DOMAIN before(owner) :
              /\ r \in DOMAIN after(owner)
              /\ after(owner)[r] = before(owner)[r]
       /\ \A i \in 1..Len(gets) :
              LET g == gets[i]
                  owner == g.client.owner
              IN /\ g.built <=> (g.region \notin DOMAIN before(owner) /\ asked(i) = {})
                 /\ g.client.version = "2025-04-08"
                 /\ g.client.service_url = <<"https://", g.region, ".iaas.cloud.ibm.com/v1">>
                 /\ g.region \in DOMAIN before(owner)
                        => g.client = before(owner)[g.region]
                 /\ \A j \in asked(i) : gets[j].client = g.client
                 /\ g.region \in DOMAIN after(owner)
                 /\ after(owner)[g.region] = g.client
C4_MemoizedNoEviction == [][C4_Step]_vars

\* A call whose remote call failed asked for a client that was stored by an
\* earlier call, and got it without a construction.
C4_Witness_Reused ==
    /\ Ran("get_vpc")
    /\ RemoteFailed
    /\ last_call.gets[1].built = FALSE
    /\ ctor_calls[<<"vpc", last_call.gets[1].region>>] = 1
    /\ vpc_manager.vpc_clients[last_call.gets[1].region] = last_call.gets[1].client

\* ---------------------------------------------------------------------- C5
\* The records of the response the method just run read its items from.
RawItems ==
    LET body == last_call.feed[1].body
        key == IF last_call.name \in {"list_volume_profiles", "list_share_profiles",
                                      "list_instance_profiles"}
               THEN "profiles" ELSE PluralOf(last_call.name)
    IN Get(body, key, <<>>)

\* The list functions with a client-side filter, and the number of records
\* of the response that pass it.
VpcFiltered ==
    {"list_subnets", "list_instances", "list_security_groups", "list_public_gateways"}
Passing ==
    IF last_call.name \in VpcFiltered /\ Truthy(last_call.arguments.vpc_id)
    THEN Cardinality({i \in 1..Len(RawItems) :
                         RawItems[i].vpc.id = last_call.arguments.vpc_id})
    ELSE IF last_call.name = "list_routing_tables" /\ last_call.arguments.name # NoName
    THEN Cardinality({i \in 1..Len(RawItems) :
                         Contains(Lower(last_call.arguments.name),
                                  Lower(Get(RawItems[i], "name", UnknownName)))})
    ELSE Len(RawItems)

\* C5: in every result a list function returns, count is the length of the
\* returned list; on the success path that is the number of records of the
\* response that pass the vpc_id filter or the name filter, on the error
\* path it is 0.
C5_CountIsLength ==
    /\ (RanOneOf(EnvelopingLists \cup RaisingLists \cup BackupLists
                     \cup {"list_security_group_rules"})
            /\ Returned(last_call.out))
           => /\ last_call.out.value.count =
                     Len(last_call.out.value[PluralOf(last_call.name)])
              /\ last_call.out.value.count =
                     IF Has(last_call.out.value, "error") THEN 0 ELSE Passing
    /\ (Ran("list_vpcs") /\ Returned(last_call.out))
           => last_call.out.value.count = Len(last_call.out.value.vpcs)

\* The vpc_id filter of list_subnets dropped one of two records.
C5_Witness_Filtered ==
    /\ Ran("list_subnets")
    /\ Returned(last_call.out)
    /\ Len(RawItems) = 2
    /\ last_call.out.value.count = 1
    /\ last_call.out.value.subnets[1].vpc.id = "vpc-1"

\* ---------------------------------------------------------------------- C6
\* The items of the result the list function just run returned.
ReturnedItems == last_call.out.value[PluralOf(last_call.name)]
\* The list functions that write `region` into each record they return.
StampingLists == {"list_subnets"} \cup BackupLists
\* The list functions that return the records of the service as they are,
\* or a projection of them that has no `region`.
UnstampedLists == (EnvelopingLists \cup RaisingLists \cup {"list_security_group_rules"})
                      \ {"list_subnets"}

\* C6 as stated: every record a list function returns carries `region`,
\* equal to the region requested.
C6_EveryItemStamped ==
    (RanOneOf(StampingLists \cup UnstampedLists) /\ Returned(last_call.out))
        => \A i \in 1..Len(ReturnedItems) :
               /\ Has(ReturnedItems[i], "region")
               /\ ReturnedItems[i].region = last_call.arguments.region

\* C6 amended: list_vpcs, list_subnets and the three backup-policy listings
\* write the requested region into every record they return; every other
\* list function states the region once, in the envelope, and returns
\* records that carry no `region` unless the service sent one.
C6_StampedOnlyBySome ==
    /\ (RanOneOf(StampingLists) /\ Returned(last_call.out))
           => \A i \in 1..Len(ReturnedItems) :
                  /\ Has(ReturnedItems[i], "region")
                  /\ ReturnedItems[i].region = last_call.arguments.region
    /\ (Ran("list_vpcs") /\ Truthy(last_call.arguments.region)
            /\ Returned(last_call.out))
           => \A i \in 1..Len(last_call.out.value.vpcs) :
                  last_call.out.value.vpcs[i].region = last_call.arguments.region
    /\ (RanOneOf(UnstampedLists) /\ Returned(last_call.out))
           => /\ last_call.out.value.region = last_call.arguments.region
              /\ \A i \in 1..Len(ReturnedItems) : ~Has(ReturnedItems[i], "region")

\* list_backup_policy_plans returned a plan with the region written into
\* it, the service having sent the plan without one.
C6_Witness_Stamped ==
    /\ Ran("list_backup_policy_plans")
    /\ Returned(last_call.out)
    /\ Len(ReturnedItems) > 0
    /\ ~Has(RawItems[1], "region")
    /\ ReturnedItems[1].region = last_call.arguments.region

\* ---------------------------------------------------------------------- C7
\* C7: when their remote call fails, list_backup_policies,
\* list_backup_policy_jobs and list_backup_policy_plans return nothing and
\* raise the exception of the remote call, unchanged.
C7_BackupListsPropagate ==
    (RanOneOf(BackupLists) /\ RemoteFailed)
        => /\ Raised(last_call.out)
           /\ last_call.out.exc = last_call.feed[1].exc

\* list_backup_policy_jobs raised the ApiException of its remote call.
C7_Witness_Raised ==
    /\ Ran("list_backup_policy_jobs")
    /\ last_call.feed[1] = Fail(ApiException("Not Found"))
    /\ Raised(last_call.out)

\* ---------------------------------------------------------------------- C8
\* The slots of the two summaries, and the value a summary holds in one.
VpcSummarySlots ==
    {"vpc_details", "subnets", "instances", "security_groups", "public_gateways",
     "security_analysis"}
BackupSummarySlots == {"policy_details", "plans", "recent_jobs"}
SlotOf(summary, slot) ==
    IF slot \in {"subnets", "instances", "security_groups", "public_gateways"}
    THEN summary.resources[slot] ELSE summary[slot]

\* The outcome of the sub-query behind a slot, run on its own with the
\* responses the summary fed it.
SubQuery(slot, args, feed) ==
    CASE slot = "vpc_details" ->
             get_vpc(vpc_manager, args.vpc_id, args.region, feed.vpc).out
      [] slot = "subnets" ->
             list_subnets(vpc_manager, args.region, args.vpc_id, feed.subnets).out
      [] slot = "instances" ->
             list_instances(vpc_manager, args.region, args.vpc_id, feed.instances).out
      [] slot = "security_groups" ->
             list_security_groups(vpc_manager, args.region, args.vpc_id,
                                  feed.security_groups).out
      [] slot = "public_gateways" ->
             list_public_gateways(vpc_manager, args.region, args.vpc_id,
                                  feed.public_gateways).out
      [] slot = "security_analysis" ->
             analyze_ssh_security_groups(vpc_manager, args.region, args.vpc_id,
                                         feed.ssh_groups, feed.ssh_rules).out
      [] slot = "policy_details" ->
             IF feed.policy.kind = "raise" THEN Raise(feed.policy.exc)
             ELSE Return(feed.policy.body)
      [] slot = "plans" ->
             list_backup_policy_plans(vpc_manager, args.backup_policy_id, args.region,
                                      None, feed.plans).out
      [] slot = "recent_jobs" ->
             list_backup_policy_jobs(vpc_manager, args.backup_policy_id, args.region,
                                     50, "-created_at", feed.jobs).out

\* The responses with which no sub-query fails.
HealthyVpcFeed ==
    [vpc |-> Ok(RawVpc("vpc-1")),
     subnets |-> Ok([subnets |-> <<RawRecord("r-1", "vpc-1")>>]),
     instances |-> Ok([instances |-> <<>>]),
     security_groups |-> Ok([security_groups |-> <<RawRecord("r-2", "vpc-1")>>]),
     public_gateways |-> Ok([public_gateways |-> <<>>]),
     ssh_groups |-> Ok([security_groups |-> <<>>]),
     ssh_rules |-> <<>>]
HealthyBackupFeed ==
    [policy |-> Ok([id |-> "bp-1"]), plans |-> Ok([plans |-> <<>>]),
     jobs |-> Ok([jobs |-> <<>>])]
\* The parts of the feed that answer the sub-query of a slot.
FeedOf(slot) ==
    CASE slot = "vpc_details" -> {"vpc"}
      [] slot = "security_analysis" -> {"ssh_groups", "ssh_rules"}
      [] slot = "policy_details" -> {"policy"}
      [] slot = "recent_jobs" -> {"jobs"}
      [] OTHER -> {slot}
\* The feed with the responses of the failing sub-queries replaced by
\* responses on which they succeed.
Healed(slots, args, feed, healthy) ==
    LET failing == {slot \in slots : Raised(SubQuery(slot, args, feed))}
        replaced == UNION {FeedOf(slot) : slot \in failing}
    IN [k \in DOMAIN feed |-> IF k \in replaced THEN healthy[k] ELSE feed[k]]

\* What C8 asks of the summary just returned, whose slots are `slots`, given
\* the summary `unfailed` computed on the healed feed.
SlotsIndependent(slots, unfailed) ==
    /\ Returned(last_call.out)
    /\ Returned(unfailed)
    /\ \A slot \in slots :
           LET q == SubQuery(slot, last_call.arguments, last_call.feed)
           IN IF Raised(q)
              THEN SlotOf(last_call.out.value, slot) = [error |-> Str(q.exc)]
              ELSE SlotOf(last_call.out.value, slot) = SlotOf(unfailed.value, slot)

\* C8: get_vpc_resources_summary and get_backup_policy_summary never raise;
\* the slot of a sub-query that raised holds {error: str(e)}, and every
\* other slot holds the value it holds in the summary of the same responses
\* with those of the failing sub-queries replaced by successful ones.
C8_SummarySlotsIndependent ==
    /\ Ran("get_vpc_resources_summary")
           => SlotsIndependent(
                  VpcSummarySlots,
                  get_vpc_resources_summary(
                      VPCManager([apikey |-> env_api_key]),
                      last_call.arguments.vpc_id, last_call.arguments.region,
                      Healed(VpcSummarySlots, last_call.arguments, last_call.feed,
                             HealthyVpcFeed)).out)
    /\ Ran("get_backup_policy_summary")
           => SlotsIndependent(
                  BackupSummarySlots,
                  get_backup_policy_summary(
                      VPCManager([apikey |-> env_api_key]),
                      last_call.arguments.backup_policy_id, last_call.arguments.region,
                      Healed(BackupSummarySlots, last_call.arguments, last_call.feed,
                             HealthyBackupFeed)).out)

\* A summary whose VPC fetch and security-group listing failed with a
\* transport error, and whose subnet and instance slots are filled.
C8_Witness_PartialFailure ==
    /\ Ran("get_vpc_resources_summary")
    /\ last_call.feed.vpc = Fail(ConnectionError("unreachable"))
    /\ last_call.feed.security_groups = Fail(ConnectionError("unreachable"))
    /\ Returned(last_call.out)
    /\ last_call.out.value.vpc_details = [error |-> <<"unreachable">>]
    /\ last_call.out.value.resources.security_groups = [error |-> <<"unreachable">>]
    /\ last_call.feed.subnets = Ok([subnets |-> SampleList])
    /\ last_call.feed.instances = Ok([instances |-> SampleList])
    /\ last_call.out.value.resources.subnets.count = 1
    /\ last_call.out.value.resources.instances.by_status = [running |-> 1]

\* ---------------------------------------------------------------------- C9
\* The get functions whose body is a try block ending in an error mapping,
\* and those without a try block.
EnvelopingGets == {"get_routing_table", "get_volume", "get_share", "get_snapshot"}
RaisingGets == {"get_vpc", "get_security_group"}

\* C9 as stated: none of the six get functions raises when its remote call
\* fails; each returns a mapping with `error`, the requested id and the
\* region.
C9_EveryGetReturnsError ==
    (RanOneOf(EnvelopingGets \cup RaisingGets) /\ RemoteFailed)
        => /\ Returned(last_call.out)
           /\ Has(last_call.out.value, "error")
           /\ \A k \in DOMAIN last_call.arguments :
                  /\ Has(last_call.out.value, k)
                  /\ last_call.out.value[k] = last_call.arguments[k]

\* C9 amended: get_routing_table, get_volume, get_share and get_snapshot
\* never raise and answer a failed remote call with exactly
\* {error: str(e), <the requested ids>, region}; get_vpc and
\* get_security_group raise the exception of the remote call unchanged.
C9_ErrorOnlyWhereTryBlock ==
    /\ RanOneOf(EnvelopingGets)
           => /\ Returned(last_call.out)
              /\ RemoteFailed
                     => last_call.out.value =
                            Put(last_call.arguments, "error",
                                Str(last_call.feed[1].exc))
    /\ (RanOneOf(RaisingGets) /\ RemoteFailed)
           => /\ Raised(last_call.out)
              /\ last_call.out.exc = last_call.feed[1].exc

\* get_routing_table answered a transport error with the error mapping.
C9_Witness_ErrorMapping ==
    /\ Ran("get_routing_table")
    /\ last_call.feed[1] = Fail(ConnectionError("unreachable"))
    /\ Returned(last_call.out)
    /\ last_call.out.value.error = <<"unreachable">>
    /\ last_call.out.value.routing_table_id = "r-1"

\* --------------------------------------------------------------------- C10
\* The tools whose functions C10 counts as propagating, among those src/
\* holds.
PropagatingTools == BackupLists

\* C10 as stated, for the calls that reach a function: only a
\* backup-policy (or VPN) function that raised is answered with
\* "Error: <message>"; every other tool is answered with indented JSON.
C10_ErrorTextOnlyForPropagating ==
    (last_call # Idle /\ last_call.name # "list_vpn_gateways"
         /\ last_call.handler # "none")
        => /\ IsErrorText(last_call.reply)
               => (RanOneOf(PropagatingTools) /\ Raised(last_call.out))
           /\ last_call.name \notin PropagatingTools => IsJsonText(last_call.reply)

\* C10 amended: a call is answered with "Error: <str(e)>" exactly when
\* something raised inside call_tool: the missing API key, the unknown tool
\* name, a missing required argument, or the routed function itself, of
\* whatever tool (get_vpc, list_subnets and list_regions as much as the
\* backup-policy listings); otherwise the answer is the result as JSON
\* indented by 2.  The functions that catch their own exceptions (the
\* routing-table and storage tools, the two summaries) are never answered
\* with error text once they run.
C10_ErrorTextWheneverRaised ==
    last_call # Idle
        => /\ IF Raised(last_call.out)
              THEN last_call.reply =
                       [type |-> "text",
                        text |-> [prefix |-> "Error: ",
                                  message |-> last_call.out.exc.msg]]
              ELSE last_call.reply =
                       [type |-> "text",
                        text |-> [json |-> last_call.out.value, indent |-> 2]]
           /\ last_call.handler = "none" => IsErrorText(last_call.reply)
           /\ (vpc_manager = NoneObject) => IsErrorText(last_call.reply)
           /\ (RanOneOf(RaisingLists \cup RaisingGets \cup BackupLists
                            \cup {"list_regions", "list_security_group_rules"})
                   /\ RemoteFailed)
                  => IsErrorText(last_call.reply)
           /\ RanOneOf(EnvelopingLists \cup EnvelopingGets
                           \cup {"get_vpc_resources_summary",
                                 "get_backup_policy_summary"})
                  => IsJsonText(last_call.reply)

\* get_vpc, which is no backup-policy function, ran, raised, and was
\* answered with error text.
C10_Witness_GetVpcError ==
    /\ Ran("get_vpc")
    /\ last_call.feed[1] = Fail(ApiException("Not Found"))
    /\ last_call.reply.text = [prefix |-> "Error: ", message |-> <<"Not Found">>]

\* ----------------------------------------------------------------------- C11
\* The reply of a call that found no API key.
ConfigurationError ==
    ErrorText(ValueError("IBMCLOUD_API_KEY environment variable not set"))

\* C11: while the API-key environment variable is absent (unset or empty),
\* every tool call is answered with the configuration error, and no manager
\* has been created, no region client has been constructed or handed out and
\* no manager method (the only place of remote calls) has run.
C11_NoKeyNoRemoteCall ==
    ~Truthy(env_api_key) =>
        /\ vpc_manager = NoneObject
        /\ storage_manager = NoneObject
        /\ handed = {}
        /\ \A k \in DOMAIN ctor_calls : ctor_calls[k] = 0
        /\ last_call # Idle =>
               /\ last_call.handler = "none"
               /\ last_call.gets = <<>>
               /\ Raised(last_call.out)
               /\ last_call.reply = ConfigurationError

\* A remote query was asked for without the key and answered with the
\* configuration error.
C11_Witness_NoKey ==
    /\ env_api_key = None
    /\ last_call # Idle
    /\ last_call.name = "list_vpcs"
    /\ last_call.reply = ConfigurationError
    /\ vpc_manager = NoneObject

\* ----------------------------------------------------------------------- C12
\* The tables of the response as list_routing_tables reports them, in
\* listing order.
ListedTables == Map(Get(last_call.feed[1].body, "routing_tables", <<>>), TableInfo)
\* S: the listed tables whose name contains the searched name, whatever the
\* case of the letters.
SubstringMatches ==
    Filter(ListedTables,
           LAMBDA t: Contains(Lower(last_call.arguments.name), Lower(t.name)))
\* E: the tables of S whose name is the searched name.
ExactMatches == Filter(SubstringMatches, LAMBDA t: t.name = last_call.arguments.name)
\* The fields that tell the four shapes apart.
ShapeOf(v) ==
    DOMAIN v \cap {"error", "warning", "match", "id", "matches", "primary_match",
                   "found_count"}

\* C12: when the listing succeeds, find_routing_table_by_name returns one of
\* four shapes decided by S and E: S empty gives {error, found_count 0}; one
\* exact match gives {match, id, found_count 1} without warning, whatever
\* else S holds; several exact matches give {warning, matches E,
\* primary_match first of E, found_count |E|}; no exact match and S not
\* empty gives {warning, matches S, found_count |S|} without match and id.
C12_FourShapes ==
    (Ran("find_routing_table_by_name") /\ last_call.feed[1].kind = "ok") =>
        LET v == last_call.out.value
            S == SubstringMatches
            E == ExactMatches
        IN /\ Returned(last_call.out)
           /\ S = <<>> =>
                  /\ ShapeOf(v) = {"error", "found_count"}
                  /\ v.found_count = 0
           /\ Len(E) = 1 =>
                  /\ ShapeOf(v) = {"match", "id", "found_count"}
                  /\ v.match = E[1]
                  /\ v.id = E[1].id
                  /\ v.found_count = 1
           /\ Len(E) > 1 =>
                  /\ ShapeOf(v) = {"warning", "matches", "primary_match", "found_count"}
                  /\ v.matches = E
                  /\ v.primary_match = E[1]
                  /\ v.found_count = Len(E)
           /\ (E = <<>> /\ S # <<>>) =>
                  /\ ShapeOf(v) = {"warning", "matches", "found_count"}
                  /\ v.matches = S
                  /\ v.found_count = Len(S)

\* One exact match next to a partial match in another case, answered with
\* the exact match alone.
C12_Witness_ExactAmongPartial ==
    /\ Ran("find_routing_table_by_name")
    /\ last_call.feed[1].kind = "ok"
    /\ Len(SubstringMatches) = 2
    /\ Len(ExactMatches) = 1
    /\ Returned(last_call.out)
    /\ Has(last_call.out.value, "match")
    /\ last_call.out.value.id = "r-2"

\* ----------------------------------------------------------------------- C13
\* The documented risk policy, stated on the rule: the level and the factors
\* an inbound rule must get.
PolicyPorts(rule) ==
    {e \in {RiskyPorts[i] : i \in 1..Len(RiskyPorts)} :
        /\ Get(rule, "protocol", None) = "tcp"
        /\ Get(rule, "port_min", 0) <= e.port
        /\ e.port <= Get(rule, "port_max", 65535)}
PolicyAnywhere(rule) ==
    Has(rule, "remote") /\ Has(rule.remote, "cidr_block")
        /\ rule.remote.cidr_block = "0.0.0.0/0"
PolicyWide(rule) == Get(rule, "port_max", 65535) - Get(rule, "port_min", 0) > 1000
PolicyLevel(rule) ==
    IF PolicyAnywhere(rule) THEN "high"
    ELSE IF \E e \in PolicyPorts(rule) : e.port \in {22, 23, 3389} THEN "medium"
    ELSE IF PolicyWide(rule) THEN "medium"
    ELSE "low"
FactorsOf(result) == {result.risk_factors[i] : i \in 1..Len(result.risk_factors)}

\* The policy on the rule just analysed.
FollowsRiskPolicy ==
    Applied("analyze_security_rule_risk") =>
        LET rule == last_call.arguments.rule
            result == last_call.out.value
        IN IF Get(rule, "direction", None) # "inbound"
           THEN result.risk_level = "low" /\ result.risk_factors = <<>>
           ELSE /\ result.risk_level = PolicyLevel(rule)
                /\ FactorsOf(result) =
                       (IF PolicyAnywhere(rule) THEN {AnywhereFactor} ELSE {})
                       \cup {ExposesFactor(e) : e \in PolicyPorts(rule)}
                       \cup (IF PolicyWide(rule)
                             THEN {WideRangeFactor(Get(rule, "port_min", 0),
                                                   Get(rule, "port_max", 65535))}
                             ELSE {})
                /\ Len(result.risk_factors) = Cardinality(FactorsOf(result))

\* The two rules the policy is illustrated with.
SshFromAnywhere ==
    [id |-> "rule-1", direction |-> "inbound", protocol |-> "tcp",
     port_min |-> 22, port_max |-> 22, remote |-> [cidr_block |-> "0.0.0.0/0"]]
RdpFromPrivate ==
    [id |-> "rule-1", direction |-> "inbound", protocol |-> "tcp",
     port_min |-> 3389, port_max |-> 3389, remote |-> [cidr_block |-> "10.0.0.0/8"]]

\* C13: analyze_security_rule_risk follows the documented policy on every
\* rule.  A rule that is not inbound is low without factors.  An inbound
\* rule gets the 'anywhere' factor exactly when its remote cidr_block is
\* 0.0.0.0/0, one 'Exposes' factor for exactly the table ports inside its
\* port range when its protocol is tcp, and the wide-range factor exactly
\* when port_max - port_min > 1000 (an absent port_min counts as 0, an absent
\* port_max as 65535); no factor appears twice.  Its level is high with
\* 0.0.0.0/0, else medium with port 22, 23 or 3389 exposed or a wide range,
\* else low.
\* SSH from anywhere is high with both factors; RDP from a private network
\* is medium with one factor.
C13_RiskPolicy ==
    /\ FollowsRiskPolicy
    /\ (Applied("analyze_security_rule_risk") /\ last_call.arguments.rule = SshFromAnywhere)
           => /\ last_call.out.value.risk_level = "high"
              /\ last_call.out.value.risk_factors =
                     <<AnywhereFactor, <<"Exposes ", "SSH", " (port ", 22, ")">> >>
    /\ (Applied("analyze_security_rule_risk") /\ last_call.arguments.rule = RdpFromPrivate)
           => /\ last_call.out.value.risk_level = "medium"
              /\ last_call.out.value.risk_factors =
                     << <<"Exposes ", "RDP", " (port ", 3389, ")">> >>

\* SSH open to anywhere was analysed: high, with both factors.
C13_Witness_SshAnywhere ==
    /\ Applied("analyze_security_rule_risk")
    /\ last_call.arguments.rule = SshFromAnywhere
    /\ last_call.out.value.risk_level = "high"
    /\ Len(last_call.out.value.risk_factors) = 2

\* ----------------------------------------------------------------------- C14
\* SSH open to the world, as the claim states it: inbound, tcp, a port range
\* holding 22 (an absent bound is 0 below, 65535 above) and the remote
\* cidr_block equal to the string 0.0.0.0/0.
SshOpenToWorld(rule) ==
    /\ Has(rule, "direction") /\ rule.direction = "inbound"
    /\ Has(rule, "protocol") /\ rule.protocol = "tcp"
    /\ (Has(rule, "port_min") => rule.port_min <= 22)
    /\ (Has(rule, "port_max") => 22 <= rule.port_max)
    /\ Has(rule, "remote") /\ Has(rule.remote, "cidr_block")
    /\ rule.remote.cidr_block = "0.0.0.0/0"
\* The groups the scan just answered looked at: those of the given VPC, or
\* all of the listing.
ScannedGroups ==
    LET all == last_call.feed.groups.body.security_groups
    IN IF Truthy(last_call.arguments.vpc_id)
       THEN Filter(all, LAMBDA sg: sg.vpc.id = last_call.arguments.vpc_id)
       ELSE all
\* The rules of the i-th scanned group the predicate P holds of, in order.
RulesOfGroup(i, P(_)) == SelectSeq(last_call.feed.rules[i].body.rules, P)
\* The positions, in scan order, of the scanned groups whose rules were
\* fetched and hold a rule of P.
GroupsToReport(P(_)) ==
    SelectSeq([i \in 1..Len(ScannedGroups) |-> i],
              LAMBDA i: /\ last_call.feed.rules[i].kind = "ok"
                        /\ RulesOfGroup(i, P) # <<>>)

\* C14: analyze_ssh_security_groups, when it returns, reports a scanned
\* group if and only if the group has a rule that is SSH open to the world;
\* the group's risky_rules are exactly those rules, rule_count is their
\* number and count is the number of reported groups.
C14_ReportsExactlyOpenGroups ==
    (Ran("analyze_ssh_security_groups") /\ Returned(last_call.out)) =>
        LET v == last_call.out.value
            expected == GroupsToReport(SshOpenToWorld)
        IN /\ v.count = Len(v.risky_security_groups)
           /\ Len(v.risky_security_groups) = Len(expected)
           /\ \A k \in 1..Len(expected) :
                  LET reported == v.risky_security_groups[k]
                  IN /\ reported.security_group_id = ScannedGroups[expected[k]].id
                     /\ reported.risky_rules = RulesOfGroup(expected[k], SshOpenToWorld)
                     /\ reported.rule_count = Len(reported.risky_rules)

\* Of two scanned groups one is reported, with two of its three rules.
C14_Witness_OneOfTwo ==
    /\ Ran("analyze_ssh_security_groups")
    /\ Returned(last_call.out)
    /\ Len(ScannedGroups) = 2
    /\ last_call.out.value.count = 1
    /\ last_call.out.value.risky_security_groups[1].security_group_id = "r-2"
    /\ last_call.out.value.risky_security_groups[1].rule_count = 2
    /\ Len(last_call.feed.rules[2].body.rules) = 3

\* ----------------------------------------------------------------------- C15
ScanTools == {"analyze_ssh_security_groups", "analyze_security_groups_by_protocol"}
\* The rule test of the scan just answered.
ScanTest(rule) ==
    IF last_call.name = "analyze_ssh_security_groups" THEN SshOpenToWorld(rule)
    ELSE MatchesProtocolRule(rule, last_call.arguments.protocol,
                             last_call.arguments.port, last_call.arguments.source_cidr)
\* The groups the scan just answered reports, and the rules it reports of
\* its k-th group.
ScanReport ==
    IF last_call.name = "analyze_ssh_security_groups"
    THEN last_call.out.value.risky_security_groups
    ELSE last_call.out.value.matching_security_groups
ReportedRules(k) ==
    IF last_call.name = "analyze_ssh_security_groups" THEN ScanReport[k].risky_rules
    ELSE ScanReport[k].matching_rules
\* The scan got its group listing, every rule listing was answered with
\* rules or failed, and at least one failed.
SomeRuleFetchFailed ==
    /\ RanOneOf(ScanTools)
    /\ last_call.feed.groups.kind = "ok"
    /\ Has(last_call.feed.groups.body, "security_groups")
    /\ \A i \in 1..Len(last_call.feed.rules) :
           \/ last_call.feed.rules[i].kind = "raise"
           \/ Has(last_call.feed.rules[i].body, "rules")
    /\ \E i \in 1..Len(last_call.feed.rules) : last_call.feed.rules[i].kind = "raise"
\* The scan returned, and reports exactly the groups whose rules were
\* fetched and hold a matching rule.
ScanReportsFetchedGroups ==
    /\ Returned(last_call.out)
    /\ LET expected == GroupsToReport(ScanTest)
       IN /\ Len(ScanReport) = Len(expected)
          /\ last_call.out.value.count = Len(expected)
          /\ \A k \in 1..Len(expected) :
                 /\ ScanReport[k].security_group_id = ScannedGroups[expected[k]].id
                 /\ ReportedRules(k) = RulesOfGroup(expected[k], ScanTest)
\* The positions of the rule listings that failed with something else than
\* an ApiException.
UncaughtFailures ==
    {i \in 1..Len(last_call.feed.rules) :
        /\ last_call.feed.rules[i].kind = "raise"
        /\ last_call.feed.rules[i].exc.type # "ApiException"}

\* C15 as stated: in both scans a failure while fetching the rules of one
\* group skips only that group; the scan does not raise and every group
\* whose rules were fetched is evaluated and reported.
C15_AnyFetchFailureSkipped ==
    SomeRuleFetchFailed => ScanReportsFetchedGroups

\* C15, amended: a rule fetch that fails with an ApiException skips only its
\* group - when every failed fetch failed so, the scan returns and reports
\* every other group that matches; the first fetch failing with any other
\* exception ends the scan, which raises that exception.
C15_OnlyApiExceptionSkipped ==
    SomeRuleFetchFailed =>
        IF UncaughtFailures = {}
        THEN ScanReportsFetchedGroups
        ELSE /\ Raised(last_call.out)
             /\ LET first == CHOOSE i \in UncaughtFailures :
                                 \A j \in UncaughtFailures : i <= j
                IN last_call.out.exc = last_call.feed.rules[first].exc

\* The first group's rules could not be fetched (ApiException) and the
\* second group is reported.
C15_Witness_SkippedOne ==
    /\ SomeRuleFetchFailed
    /\ last_call.name = "analyze_security_groups_by_protocol"
    /\ Len(last_call.feed.rules) = 2
    /\ last_call.feed.rules[1] = Fail(ApiException("Not Found"))
    /\ Returned(last_call.out)
    /\ last_call.out.value.count = 1
    /\ ScanReport[1].security_group_id = "r-2"

\* ----------------------------------------------------------------------- C16
\* The health analysis was applied to a stable policy and n completed jobs,
\* the most recent at most three days old.
StableWithRecentCompleted(n) ==
    /\ Applied("analyze_backup_policy_health")
    /\ Get(last_call.arguments.policy, "lifecycle_state", None) = "stable"
    /\ LET jobs == last_call.arguments.jobs
       IN /\ Len(jobs) = n
          /\ \A i \in 1..n : jobs[i].status = "completed"
          /\ Has(jobs[1], "created_at") /\ Parseable(jobs[1].created_at)
          /\ jobs[1].created_at.days_ago <= 3

C17_NoJobsIsWarning ==
    (Applied("analyze_backup_policy_health") /\ last_call.arguments.jobs = <<>>) =>
        /\ Returned(last_call.out)
        /\ last_call.out.value.status = "warning"
        /\ \E i \in 1..Len(last_call.out.value.issues) :
               last_call.out.value.issues[i] = <<"No backup jobs found">>

\* The analysis of a stable policy without jobs raised UnboundLocalError.
C17_Witness_NoJobsRaises ==
    /\ Applied("analyze_backup_policy_health")
    /\ last_call.arguments.jobs = <<>>
    /\ Get(last_call.arguments.policy, "lifecycle_state", None) = "stable"
    /\ Raised(last_call.out)
    /\ last_call.out.exc.type = "UnboundLocalError"

\* ----------------------------------------------------------------------- C18
\* The ids of the records of the collection the caller is reading.
CollectionIds == {pager.collection[i].id : i \in 1..Len(pager.collection)}

\* C18 as stated: every record of a remote collection of several pages is
\* reachable by the caller.  Each list invocation makes exactly one remote
\* call and returns the records of that one page, and it returns the cursor
\* with which the caller re-invokes: a caller that has followed the cursors
\* to the end has got every record.
C18_EveryRecordReachable ==
    pager # NoPager =>
        /\ last_call # Idle =>
               /\ Len(last_call.feed) = 1
               /\ Returned(last_call.out)
               /\ Len(last_call.out.value[pager.key]) = Len(last_call.feed[1].body[pager.key])
        /\ pager.finished => pager.seen = CollectionIds

\* A caller has read the first page of a collection of several pages and
\* was given no cursor to go on with.
C18_Witness_StuckAfterFirstPage ==
    /\ pager # NoPager
    /\ pager.tool = "list_volumes"
    /\ pager.finished
    /\ Len(pager.collection) = 3 * PageSize
    /\ Cardinality(pager.seen) = PageSize
    /\ last_call # Idle
    /\ Has(last_call.feed[1].body, "next")
    /\ DOMAIN last_call.out.value = {"volumes", "count", "region", "filters"}

\* ----------------------------------------------------------------------- C19
\* One of the three operations ran with an identifier for which its
\* remote call failed: list_vpcs with an explicit region, get_vpc,
\* list_backup_policy_jobs.
RejectedCall ==
    \/ /\ Ran("list_vpcs")
       /\ Truthy(last_call.arguments.region)
       /\ last_call.feed.vpcs[1].kind = "raise"
    \/ /\ Ran("get_vpc") \/ Ran("list_backup_policy_jobs")
       /\ last_call.feed[1].kind = "raise"
\* The exception of that remote call.
Rejection ==
    IF last_call.name = "list_vpcs" THEN last_call.feed.vpcs[1].exc
    ELSE last_call.feed[1].exc

\* C19 as stated: called with an identifier the remote service rejects,
\* list_vpcs with an explicit region, get_vpc and list_backup_policy_jobs
\* raise to the caller and return no result.
C19_RejectedIdentifierRaises ==
    RejectedCall => Raised(last_call.out)

\* C19 amended: get_vpc and list_backup_policy_jobs raise the exception of
\* the remote call, whatever it is.  list_vpcs with an explicit region
\* raises it only when it is not an ApiException; an ApiException of the
\* service is skipped and list_vpcs returns the result without VPCs, with
\* the region under regions_checked.
C19_RaisesUnlessListVpcsApiException ==
    RejectedCall =>
        IF last_call.name = "list_vpcs" /\ IsInstance(Rejection, "ApiException")
        THEN /\ Returned(last_call.out)
             /\ last_call.out.value = [vpcs |-> <<>>, count |-> 0,
                                       regions_checked |-> <<last_call.arguments.region>>]
        ELSE /\ Raised(last_call.out)
             /\ last_call.out.exc = Rejection

\* The service rejected the explicit region of list_vpcs with an
\* ApiException and list_vpcs returned.
C19_Witness_ListVpcsReturns ==
    /\ RejectedCall
    /\ last_call.name = "list_vpcs"
    /\ Rejection = ApiException("Not Found")
    /\ Returned(last_call.out)
    /\ last_call.out.value.count = 0

\* ----------------------------------------------------------------------- C20
\* What list_vpcs(region) of invocation t does when it runs alone on the
\* manager the invocations started on.
Alone(t) ==
    LET self == tasks.manager
        region == tasks.frames[t].region
        regions_to_check == RegionsToCheck(self, region, tasks.service.regions)
    IN list_vpcs(self, region,
                 IF FetchesRegions(self, region) THEN tasks.service.regions ELSE NotCalled,
                 [i \in 1..Len(regions_to_check) |-> tasks.service.vpcs[regions_to_check[i]]])
\* The regions a client was requested for: before the invocations started
\* and by each of them.
RequestedRegions ==
    DOMAIN tasks.manager.vpc_clients
        \cup UNION {{Alone(t).gets[i].region : i \in 1..Len(Alone(t).gets)} : t \in Tasks}
AllDone == \A t \in Tasks : tasks.frames[t].pc = "done"

\* C20: when several invocations run concurrently on the same manager, under
\* every interleaving each returns (or raises) what it does when run alone,
\* and when all have finished the cache holds exactly one client for each
\* requested region: an entry for every requested region and no other, each
\* a client of its region's endpoint, and every client handed out was one
\* for the region asked.
C20_ConcurrentAsAlone ==
    tasks # NoTasks =>
        /\ \A t \in Tasks :
               tasks.frames[t].pc = "done" => tasks.frames[t].out = Alone(t).out
        /\ \A h \in handed : EndpointOf(h.client) = h.region
        /\ AllDone =>
               /\ DOMAIN vpc_manager.vpc_clients = RequestedRegions
               /\ \A r \in RequestedRegions :
                      EndpointOf(vpc_manager.vpc_clients[r]) = r

\* Two invocations used the same uncached region for the first time, both
\* found it missing and both constructed a client; both have returned.
C20_Witness_DuplicateConstruction ==
    /\ tasks # NoTasks
    /\ AllDone
    /\ \A t \in Tasks : tasks.frames[t].region = "eu-de" /\ Returned(tasks.frames[t].out)
    /\ tasks.manager.vpc_clients = EmptyDict
    /\ ctor_calls[<<"vpc", "eu-de">>] = 2
    /\ Cardinality({h \in handed : h.region = "eu-de"}) = 2
    /\ tasks.frames["t1"].out.value.count = 1

\* ----------------------------------------------------------------------- C21
\* Two calls of the history are the same invocation: the same operation,
\* the same arguments, and the same responses of the service to the remote
\* calls each made.
SameInvocation ==
    /\ earlier.on
    /\ earlier.kept # NoCall
    /\ earlier.last # NoCall
    /\ earlier.kept.name = earlier.last.name
    /\ earlier.kept.arguments = earlier.last.arguments
    /\ earlier.kept.feed = earlier.last.feed
\* The operation of the two calls is list_vpcs without a region.
ListVpcsOfAllRegions ==
    earlier.last.name = "list_vpcs" /\ ~Truthy(earlier.last.arguments.region)

\* C21 as stated: apart from the region client cache no state written by an
\* invocation is read by a later one; the result of every operation depends
\* only on its arguments and the responses of the service, never on the
\* operations invoked before it on the same manager.
C21_ResultIgnoresHistory ==
    SameInvocation => earlier.kept.out = earlier.last.out

\* C21 amended: the stored region list is state too.  The result of an
\* operation depends only on its arguments, the responses of the service
\* and, for list_vpcs without a region, the region list the manager holds
\* from the last successful list_regions; the client cache never changes a
\* result.
C21_ResultReadsStoredRegions ==
    (SameInvocation /\ (ListVpcsOfAllRegions => earlier.kept.regions = earlier.last.regions))
        => earlier.kept.out = earlier.last.out

\* list_vpcs() was answered twice with the same response of the service and
\* without a region-list call, once after list_regions had stored one list
\* and once after it had stored another: the two results differ.
C21_Witness_StoredListDecides ==
    /\ SameInvocation
    /\ ListVpcsOfAllRegions
    /\ earlier.last.feed.regions = NotCalled
    /\ earlier.kept.regions = <<"us-south">>
    /\ earlier.last.regions = <<"eu-de">>
    /\ Returned(earlier.kept.out) /\ Returned(earlier.last.out)
    /\ earlier.kept.out.value.regions_checked = <<"us-south">>
    /\ earlier.last.out.value.regions_checked = <<"eu-de">>

\* ----------------------------------------------------------------------- C22
\* The score the documented policy gives a policy and its jobs, before the
\* floor at 0.
PolicyHealthScore(policy, jobs) ==
    LET considered == FirstTenJobs(jobs)
        n == Len(considered)
        failed == Cardinality({i \in 1..n : Get(considered[i], "status", None) = "failed"})
        first == considered[1]
        parsed == Has(first, "created_at") /\ Parseable(first.created_at)
    IN 100
       - (IF Get(policy, "lifecycle_state", None) # "stable" THEN 30 ELSE 0)
       - (IF jobs = <<>> THEN 40
          ELSE (IF 2 * failed > n THEN 30 ELSE IF 5 * failed > n THEN 15 ELSE 0)
               + (IF n < 5 THEN 10 ELSE 0)
               + (IF ~parsed THEN 0
                  ELSE IF first.created_at.days_ago > 7 THEN 20
                  ELSE IF first.created_at.days_ago > 3 THEN 10 ELSE 0))
\* The outcome is a result with the score and status of the policy.
FollowsHealthPolicy(policy, jobs, out) ==
    LET score == PolicyHealthScore(policy, jobs)
    IN /\ Returned(out)
       /\ out.value.health_score = (IF score > 0 THEN score ELSE 0)
       /\ out.value.status = (IF score >= 80 THEN "healthy"
                              ELSE IF score >= 60 THEN "warning" ELSE "critical")
\* Every job of the list failed.
AllFailed(jobs) == jobs # <<>> /\ \A i \in 1..Len(jobs) : jobs[i].status = "failed"

\* C22 as stated: for every policy and job list analyze_backup_policy_health
\* returns the score of the documented policy (100, minus 30 for a policy
\* not stable, minus 40 for an empty job list, otherwise the failure-rate,
\* few-jobs and age deductions over the first ten jobs), floored at 0, with
\* status healthy from 80, warning from 60 and critical below; a non-stable
\* policy whose jobs all failed is critical with a score below 60.
C22_HealthScorePolicy ==
    Applied("analyze_backup_policy_health") =>
        /\ FollowsHealthPolicy(last_call.arguments.policy, last_call.arguments.jobs,
                               last_call.out)
        /\ (Get(last_call.arguments.policy, "lifecycle_state", None) # "stable"
              /\ AllFailed(last_call.arguments.jobs))
               => /\ last_call.out.value.status = "critical"
                  /\ last_call.out.value.health_score < 60

\* The analysis of a policy that is not stable and has no jobs ended in an
\* exception, where the policy gives score 30 and status critical.
C22_Witness_UnstableNoJobsRaises ==
    /\ Applied("analyze_backup_policy_health")
    /\ Get(last_call.arguments.policy, "lifecycle_state", None) = "failed"
    /\ last_call.arguments.jobs = <<>>
    /\ PolicyHealthScore(last_call.arguments.policy, last_call.arguments.jobs) = 30
    /\ Raised(last_call.out)
    /\ last_call.out.exc.type = "UnboundLocalError"

\* ----------------------------------------------------------------------- C23
\* The groups a scan reports, with the rules found under one name.
ReportedGroups(out, rules_key) ==
    LET groups == out.value[IF rules_key = "risky_rules" THEN "risky_security_groups"
                            ELSE "matching_security_groups"]
    IN [i \in 1..Len(groups) |->
           [security_group_id |-> groups[i].security_group_id,
            security_group_name |-> groups[i].security_group_name,
            vpc |-> groups[i].vpc,
            rules |-> groups[i][rules_key],
            rule_count |-> groups[i].rule_count]]
\* The two outcomes report the same: both raise the same exception, or both
\* return the same groups with the same rules, and the same count.
SameReport(ssh, by_protocol) ==
    IF Raised(ssh) \/ Raised(by_protocol) THEN ssh = by_protocol
    ELSE /\ ReportedGroups(ssh, "risky_rules") = ReportedGroups(by_protocol, "matching_rules")
         /\ ssh.value.count = by_protocol.value.count
         /\ ssh.value.region = by_protocol.value.region
         /\ ssh.value.vpc_filter = by_protocol.value.vpc_filter
\* The protocol scan ran with the criteria of the SSH scan.
ProtocolScanForSsh ==
    /\ Ran("analyze_security_groups_by_protocol")
    /\ last_call.arguments.protocol = "tcp"
    /\ last_call.arguments.port = 22
    /\ last_call.arguments.source_cidr = "0.0.0.0/0"

\* C23: on the same security groups, rules and rule-fetch failures,
\* analyze_security_groups_by_protocol(region, 'tcp', 22, '0.0.0.0/0',
\* vpc_id) reports exactly the groups, the matching rules and the count that
\* analyze_ssh_security_groups(region, vpc_id) reports.
C23_ProtocolScanEqualsSshScan ==
    /\ ProtocolScanForSsh =>
           SameReport(analyze_ssh_security_groups(
                          vpc_manager, last_call.arguments.region,
                          last_call.arguments.vpc_id, last_call.feed.groups,
                          last_call.feed.rules).out,
                      last_call.out)
    /\ Ran("analyze_ssh_security_groups") =>
           SameReport(last_call.out,
                      analyze_security_groups_by_protocol(
                          vpc_manager, last_call.arguments.region, "tcp", 22, "0.0.0.0/0",
                          last_call.arguments.vpc_id, last_call.feed.groups,
                          last_call.feed.rules).out)

\* The protocol scan with the SSH criteria went over two groups: the rule
\* listing of the first failed with an ApiException and the second was
\* reported.
C23_Witness_SecondGroupReported ==
    /\ ProtocolScanForSsh
    /\ last_call.arguments.vpc_id = None
    /\ Returned(last_call.out)
    /\ Len(last_call.feed.rules) = 2
    /\ last_call.feed.rules[1] = Fail(ApiException("Not Found"))
    /\ last_call.out.value.count = 1
    /\ last_call.out.value.matching_security_groups[1].security_group_id = "r-2"

\* ----------------------------------------------------------------------- C24
\* A list function has made its remote call.
Requested == last_call # Idle /\ last_call.handler = "request"
\* The argument of the function a parameter of the remote call comes from.
ArgumentOf(key) ==
    CASE key = "operating_system.family" -> "operating_system_family"
      [] key = "operating_system.architecture" -> "operating_system_architecture"
      [] key = "zone.name" -> "zone_name"
      [] key = "resource_group.id" -> "resource_group_id"
      [] key = "source_volume.id" -> "source_volume_id"
      [] OTHER -> key
\* The value is Python's None.
IsNone(key, value) == IF key = "limit" THEN value = NoneNumber ELSE value = None
\* The parameters the caller supplied: those of its arguments that are set.
SuppliedArguments ==
    {k \in DOMAIN last_call.arguments : ~IsNone(k, last_call.arguments[k])}
\* The functions that pass their arguments to the service method one by one.
PassesEveryArgument ==
    {"list_backup_policies", "list_backup_policy_jobs", "list_backup_policy_plans"}
\* The functions that add a parameter under `if value:`.
SendsWhenTruthy == {"list_volume_profiles", "list_share_profiles"}

\* C24 as stated: every list function sends only the filter and pagination
\* parameters the caller supplied; a parameter left unset is omitted from
\* the remote call and never sent as a null value.
C24_UnsetNeverSent ==
    Requested =>
        \A k \in DOMAIN last_call.kwargs :
            /\ ArgumentOf(k) \in SuppliedArguments
            /\ ~IsNone(k, last_call.kwargs[k])

\* C24 amended: list_routing_tables, list_volumes, list_shares and
\* list_snapshots send exactly the parameters that are not None, and
\* list_volume_profiles and list_share_profiles exactly those that are
\* truthy, each with the caller's value; list_backup_policies,
\* list_backup_policy_jobs and list_backup_policy_plans pass every parameter
\* to the service method, an unset one as None.
C24_UnsetOmittedOrPassedAsNone ==
    Requested =>
        LET sent == {ArgumentOf(k) : k \in DOMAIN last_call.kwargs}
        IN /\ \A k \in DOMAIN last_call.kwargs :
                  last_call.kwargs[k] = last_call.arguments[ArgumentOf(k)]
           /\ IF last_call.name \in PassesEveryArgument
              THEN sent = DOMAIN last_call.arguments
              ELSE IF last_call.name \in SendsWhenTruthy
              THEN sent = {k \in SuppliedArguments :
                              IF k = "limit" THEN last_call.arguments[k] # 0
                              ELSE last_call.arguments[k] # ""}
              ELSE sent = SuppliedArguments

\* list_backup_policies was called with a name only (as in
\* test_list_backup_policies_success) and passed its other parameters as None.
C24_Witness_PassedAsNone ==
    /\ Requested
    /\ last_call.name = "list_backup_policies"
    /\ SuppliedArguments = {"name"}
    /\ last_call.kwargs.name = "x"
    /\ last_call.kwargs.start = None
    /\ last_call.kwargs.tag = None
    /\ last_call.kwargs.limit = NoneNumber

\* ----------------------------------------------------------------------- C25
\* The fields each list function expects in a record of the response.
ExpectedFields(name) ==
    CASE name = "list_instances" -> DOMAIN FullInstance
      [] name = "list_subnets" ->
             {"vpc", "available_ipv4_address_count", "total_ipv4_address_count"}
      [] name = "list_volumes" ->
             {"id", "name", "status", "capacity", "iops", "profile", "zone",
              "created_at", "attachment_state"}
      [] name = "list_volume_profiles" -> {"name", "family", "href"}
\* The records of the response just listed.
ListedRecords == last_call.feed[1].body[PluralOf(last_call.name)]
\* A list function was answered a list in which some record lacks an
\* expected field.
ListedPartialRecord ==
    /\ RanOneOf({"list_instances", "list_subnets", "list_volumes", "list_volume_profiles"})
    /\ last_call.feed[1].kind = "ok"
    /\ Has(last_call.feed[1].body, PluralOf(last_call.name))
    /\ \E i \in 1..Len(ListedRecords) :
           ~(ExpectedFields(last_call.name) \subseteq DOMAIN ListedRecords[i])
\* The records of the response that pass the vpc_id filter of the call; a
\* record without `vpc` belongs to no VPC.
RecordsWanted ==
    IF Has(last_call.arguments, "vpc_id") /\ Truthy(last_call.arguments.vpc_id)
    THEN {i \in 1..Len(ListedRecords) :
             Get(Get(ListedRecords[i], "vpc", EmptyDict), "id", None)
                 = last_call.arguments.vpc_id}
    ELSE 1..Len(ListedRecords)
\* The result holds every wanted record and no error.
ReturnsEveryRecord ==
    /\ Returned(last_call.out)
    /\ ~Has(last_call.out.value, "error")
    /\ Len(last_call.out.value[PluralOf(last_call.name)]) = Cardinality(RecordsWanted)
\* The default list_volumes documents for a field.
VolumeDefault(f) ==
    CASE f \in {"capacity", "iops"} -> 0
      [] f \in {"profile", "zone"} -> [name |-> "unknown"]
      [] f = "attachment_state" -> "unattached"
      [] OTHER -> "unknown"

IsLookupResult(v) ==
    \/ ShapeOf(v) = {"match", "id", "found_count"} /\ v.found_count = 1
    \/ ShapeOf(v) = {"warning", "matches", "primary_match", "found_count"}
           /\ v.found_count > 1
    \/ ShapeOf(v) = {"warning", "matches", "found_count"}
    \/ ShapeOf(v) = {"error", "found_count"} /\ v.found_count = 0

\* C26 as stated: every result of find_routing_table_by_name is one of the
\* four Lookup Result shapes, and every result with `error` carries
\* found_count 0, also when the listing fails.
C26_AlwaysLookupResult ==
    Ran("find_routing_table_by_name") =>
        /\ Returned(last_call.out)
        /\ IsLookupResult(last_call.out.value)
        /\ Has(last_call.out.value, "error") =>
               /\ Has(last_call.out.value, "found_count")
               /\ last_call.out.value.found_count = 0

\* C26 amended: find_routing_table_by_name never raises; when the listing
\* succeeds its result is one of the four Lookup Result shapes; when the
\* listing fails its result is {error, region, vpc_id, name} with the text
\* of the failure and without found_count, matches, match or id.
C26_LookupResultUnlessListingFails ==
    Ran("find_routing_table_by_name") =>
        /\ Returned(last_call.out)
        /\ {"region", "vpc_id", "name"} \subseteq DOMAIN last_call.out.value
        /\ last_call.feed[1].kind = "ok" => IsLookupResult(last_call.out.value)
        /\ last_call.feed[1].kind = "raise" =>
               /\ ShapeOf(last_call.out.value) = {"error"}
               /\ last_call.out.value.error = Str(last_call.feed[1].exc)

\* The listing failed with an ApiException and the lookup answered with an
\* error that has no found_count.
C26_Witness_ListingFailed ==
    /\ Ran("find_routing_table_by_name")
    /\ last_call.feed[1].kind = "raise"
    /\ IsInstance(last_call.feed[1].exc, "ApiException")
    /\ Returned(last_call.out)
    /\ Has(last_call.out.value, "error")
    /\ ~Has(last_call.out.value, "found_count")

\* ----------------------------------------------------------------------- C27
\* The last call of the history is list_vpcs without a region.
LastIsListVpcsOfAllRegions ==
    earlier.on /\ earlier.last.name = "list_vpcs" /\ ~Truthy(earlier.last.arguments.region)
\* The last call of the history is list_regions.
LastIsListRegions == earlier.on /\ earlier.last.name = "list_regions"
\* The region names of a region-list response.
NamesOf(resp) == [i \in 1..Len(resp.body.regions) |-> resp.body.regions[i].name]
\* The region-list response a call was answered with answers the request.
AnswersRegions(resp) == resp.kind = "ok" /\ Has(resp.body, "regions")
\* list_vpcs() requests the region list if and only if the stored list is
\* empty, and such a request is answered as list_regions answers it.
RequestsIffEmpty ==
    LastIsListVpcsOfAllRegions =>
        LET resp == earlier.last.feed.regions
        IN /\ (resp # NotCalled) <=> (earlier.last.regions = <<>>)
           /\ resp # NotCalled =>
                  IF AnswersRegions(resp)
                  THEN /\ vpc_manager.regions = NamesOf(resp)
                       /\ Returned(earlier.last.out) =>
                              earlier.last.out.value.regions_checked = NamesOf(resp)
                  ELSE /\ Raised(earlier.last.out)
                       /\ vpc_manager.regions = <<>>
\* With a stored list, list_vpcs() iterates it and leaves it as it was.
IteratesStoredList ==
    (LastIsListVpcsOfAllRegions /\ earlier.last.regions # <<>>) =>
        /\ vpc_manager.regions = earlier.last.regions
        /\ Returned(earlier.last.out) =>
               earlier.last.out.value.regions_checked = earlier.last.regions
\* A failed list_regions leaves the stored list as it was; a successful one
\* stores the names of the response.
ListRegionsStores ==
    LastIsListRegions =>
        IF AnswersRegions(earlier.last.feed[1])
        THEN /\ Returned(earlier.last.out)
             /\ vpc_manager.regions = NamesOf(earlier.last.feed[1])
        ELSE /\ Raised(earlier.last.out)
             /\ vpc_manager.regions = earlier.last.regions
\* A kept call was a successful list_regions and the last call is a
\* list_vpcs() made at some later time.
ListVpcsAfterListRegions ==
    /\ LastIsListVpcsOfAllRegions
    /\ earlier.kept.name = "list_regions"
    /\ Returned(earlier.kept.out)

\* C27 as stated: list_vpcs() requests the region list iff the stored list
\* is empty and otherwise iterates the stored list unchanged; after one
\* successful list_regions no later list_vpcs() requests the region list;
\* a failed list_regions leaves the stored list as it was.
C27_NoRequestAfterListRegions ==
    /\ RequestsIffEmpty
    /\ IteratesStoredList
    /\ ListRegionsStores
    /\ ListVpcsAfterListRegions => earlier.last.feed.regions = NotCalled

\* C27 amended: list_vpcs() requests the region list iff the stored list is
\* empty and otherwise iterates the stored list unchanged; a failed
\* list_regions leaves the stored list as it was; a successful list_regions
\* replaces it by the names of the response, so after a list_regions that
\* returned at least one region list_vpcs() issues no region-list request
\* as long as the stored list is not replaced by an empty one, and after a
\* list_regions that returned no region the next list_vpcs() requests the
\* list again.
C27_RequestIffStoredListEmpty ==
    /\ RequestsIffEmpty
    /\ IteratesStoredList
    /\ ListRegionsStores
    /\ (ListVpcsAfterListRegions /\ earlier.last.regions = NamesOf(earlier.kept.feed[1])) =>
           (earlier.last.feed.regions = NotCalled <=> earlier.kept.out.value.count > 0)

\* list_regions succeeded with an empty list of regions and the list_vpcs()
\* after it requested the region list.
C27_Witness_EmptyListRequestedAgain ==
    /\ ListVpcsAfterListRegions
    /\ earlier.kept.out.value.count = 0
    /\ earlier.last.regions = <<>>
    /\ earlier.last.feed.regions # NotCalled
    /\ AnswersRegions(earlier.last.feed.regions)
    /\ vpc_manager.regions = <<"eu-de">>

\* ----------------------------------------------------------------------- C28
\* Everything manager m holds is still held by manager n: the authenticator
\* and every cached client, the same one for the same region.
Keeps(m, n) ==
    /\ n # NoneObject
    /\ n.authenticator = m.authenticator
    /\ \A region \in DOMAIN m.vpc_clients :
           /\ region \in DOMAIN n.vpc_clients
           /\ n.vpc_clients[region] = m.vpc_clients[region]
\* A tool call begins and ends in this step.
ToolCallStep == last_call = Idle /\ last_call' # Idle
\* One step of the server, as C28 describes the managers.
ManagersStep ==
    /\ (vpc_manager' = NoneObject) <=> (storage_manager' = NoneObject)
    /\ (vpc_manager = NoneObject /\ ToolCallStep) =>
           ((vpc_manager' # NoneObject) <=> Truthy(env_api_key))
    /\ (vpc_manager = NoneObject /\ ~ToolCallStep) => vpc_manager' = NoneObject
    /\ ToolCallStep =>
           \A i \in 1..Len(last_call'.gets) :
               LET g == last_call'.gets[i]
                   m == IF g.client.owner = "storage" THEN storage_manager'
                        ELSE vpc_manager'
               IN g.region \in DOMAIN m.vpc_clients /\ m.vpc_clients[g.region] = g.client
    /\ vpc_manager # NoneObject =>
           /\ Keeps(vpc_manager, vpc_manager')
           /\ Keeps(storage_manager, storage_manager')
           /\ \A region \in DOMAIN vpc_manager.vpc_clients :
                  ctor_calls'[<<"vpc", region>>] = ctor_calls[<<"vpc", region>>]
           /\ \A region \in DOMAIN storage_manager.vpc_clients :
                  ctor_calls'[<<"storage", region>>] = ctor_calls[<<"storage", region>>]

\* C28: vpc_manager and storage_manager are always both unset or both set;
\* they are created together by the first tool call that finds the API key,
\* whatever its tool name; once set they are never replaced, so every client
\* a call has fetched is cached on its manager, is the client later calls
\* get for that region, and no client is constructed for that region again.
C28_ManagersCreatedOnceTogether == [][ManagersStep]_vars

\* A call of an unknown tool found the API key: both managers exist, with
\* empty caches, and no method of either has run yet.
C28_Witness_UnknownToolCreates ==
    /\ last_call.name = "no_such_tool"
    /\ Raised(last_call.out)
    /\ vpc_manager # NoneObject
    /\ storage_manager # NoneObject
    /\ vpc_manager.vpc_clients = EmptyDict
    /\ storage_manager.vpc_clients = EmptyDict
    /\ handed = {}

\* ----------------------------------------------------------------------- C29
\* The sum of `field` over the groups of a by_... mapping.
RECURSIVE GroupSum(_, _, _)
GroupSum(groups, keys, field) ==
    IF keys = {} THEN 0
    ELSE LET k == CHOOSE k \in keys : TRUE
         IN groups[k][field] + GroupSum(groups, keys \ {k}, field)
\* An analysis was answered a listing of records under `key`.
Analysed(name, key) ==
    /\ Ran(name)
    /\ last_call.feed[1].kind = "ok"
    /\ Has(last_call.feed[1].body, key)

\* C29: analyze_storage_usage over the listed volumes returns no error and
\* conserves its totals: total_volumes is the number of volumes listed;
\* attached + unattached = total_volumes; the counts of by_profile and of
\* by_zone each sum to total_volumes and their capacities each sum to
\* total_capacity_gb; for an empty list every total and the attachment
\* percentage are 0.  analyze_snapshot_usage of an empty list has
\* average_size_gb 0.
C29_UsageTotalsConserved ==
    /\ Analysed("analyze_storage_usage", "volumes") =>
           /\ Returned(last_call.out)
           /\ ~Has(last_call.out.value, "error")
           /\ LET v == last_call.out.value
                  t == v.summary
              IN /\ t.total_volumes = Len(last_call.feed[1].body.volumes)
                 /\ t.attached_volumes + t.unattached_volumes = t.total_volumes
                 /\ t.attached_volumes >= 0 /\ t.unattached_volumes >= 0
                 /\ GroupSum(v.by_profile, DOMAIN v.by_profile, "count") = t.total_volumes
                 /\ GroupSum(v.by_zone, DOMAIN v.by_zone, "count") = t.total_volumes
                 /\ GroupSum(v.by_profile, DOMAIN v.by_profile, "total_capacity_gb")
                        = t.total_capacity_gb
                 /\ GroupSum(v.by_zone, DOMAIN v.by_zone, "total_capacity_gb")
                        = t.total_capacity_gb
                 /\ t.total_volumes = 0 =>
                        /\ t.total_capacity_gb = 0
                        /\ t.attached_volumes = 0
                        /\ t.unattached_volumes = 0
                        /\ t.attachment_percentage = 0
                        /\ v.by_profile = EmptyDict
                        /\ v.by_zone = EmptyDict
    /\ (Analysed("analyze_snapshot_usage", "snapshots")
           /\ last_call.feed[1].body.snapshots = <<>>) =>
           /\ Returned(last_call.out)
           /\ ~Has(last_call.out.value, "error")
           /\ last_call.out.value.summary.total_snapshots = 0
           /\ last_call.out.value.summary.total_size_gb = 0
           /\ last_call.out.value.summary.average_size_gb = 0

\* Three volumes, two of one profile, in two zones, two attached: by_profile
\* and by_zone split the 160 GB differently and both add up.
C29_Witness_TwoProfilesTwoZones ==
    /\ Analysed("analyze_storage_usage", "volumes")
    /\ Returned(last_call.out)
    /\ last_call.out.value.summary.total_volumes = 3
    /\ last_call.out.value.summary.total_capacity_gb = 160
    /\ last_call.out.value.summary.attached_volumes = 2
    /\ last_call.out.value.summary.attachment_percentage = 6667
    /\ last_call.out.value.by_profile["general-purpose"].count = 2
    /\ last_call.out.value.by_profile["general-purpose"].total_capacity_gb = 110
    /\ last_call.out.value.by_zone["zone-2"].total_capacity_gb = 60

\* ----------------------------------------------------------------------- C30
\* analyze_backup_policies was answered a listing of policies.
AnalysedListing ==
    Ran("analyze_backup_policies") /\ last_call.feed.policies.kind = "ok"
\* The policy_health entry has an issue whose text ends with `tail`.
HasIssue(entry, tail) ==
    \E k \in 1..Len(entry.issues) : entry.issues[k][Len(entry.issues[k])] = tail
\* The number of entries of policy_health with such an issue.
Counted(health, tail) == Cardinality({i \in 1..Len(health) : HasIssue(health[i], tail)})

\* C30: analyze_backup_policies returns one policy_health entry per listed
\* policy, in listing order; active_policies + inactive_policies =
\* total_policies; a policy whose job listing fails gets an 'Error
\* retrieving jobs' issue and the scan continues; no policy is counted both
\* in policies_with_failed_jobs and in policies_without_recent_jobs.
C30_OneEntryPerPolicy ==
    AnalysedListing =>
        LET listed == ListedPolicies(last_call.feed.policies)
            jobs == last_call.feed.jobs
            v == last_call.out.value
        IN /\ Returned(last_call.out)
           /\ v.total_policies = Len(listed)
           /\ Len(v.policy_health) = Len(listed)
           /\ \A i \in 1..Len(listed) :
                  /\ v.policy_health[i].policy_id = listed[i].id
                  /\ jobs[i].kind = "raise" =>
                         /\ \E k \in 1..Len(v.policy_health[i].issues) :
                                v.policy_health[i].issues[k]
                                    = <<"Error retrieving jobs: ">> \o Str(jobs[i].exc)
                         /\ ~Has(v.policy_health[i], "last_job_status")
                  /\ ~(HasIssue(v.policy_health[i], " recent failed jobs")
                        /\ HasIssue(v.policy_health[i], "No recent backup jobs found"))
           /\ v.summary.active_policies + v.summary.inactive_policies = v.total_policies
           /\ v.summary.active_policies =
                  Cardinality({i \in 1..Len(listed) :
                                  Get(listed[i], "lifecycle_state", None) = "stable"})
           /\ v.summary.policies_with_failed_jobs
                  = Counted(v.policy_health, " recent failed jobs")
           /\ v.summary.policies_without_recent_jobs
                  = Counted(v.policy_health, "No recent backup jobs found")
           /\ v.summary.policies_with_failed_jobs + v.summary.policies_without_recent_jobs
                  <= v.total_policies

\* Two policies; the job listing of the first could not be reached, the
\* jobs of the second hold a failed one: both have their entry.
C30_Witness_ScanContinues ==
    /\ AnalysedListing
    /\ Returned(last_call.out)
    /\ Len(last_call.out.value.policy_health) = 2
    /\ last_call.feed.jobs[1] = Fail(ConnectionError("unreachable"))
    /\ HasIssue(last_call.out.value.policy_health[1], "unreachable")
    /\ HasIssue(last_call.out.value.policy_health[2], " recent failed jobs")
    /\ last_call.out.value.policy_health[2].last_job_status = "succeeded"
    /\ last_call.out.value.summary.policies_with_failed_jobs = 1
    /\ last_call.out.value.summary.policies_without_recent_jobs = 0
====
